---- MODULE Spec2Model ----
(***************************************************************************)
(* A model of pyzstd's CFFI streaming engine (src/cffi/cffi_pyzstd.py):    *)
(* the blocks output buffer, the incremental compressor, the two           *)
(* decompressor variants with their carry-over buffer, the one-shot        *)
(* compress/decompress functions and the stream pump.                      *)
(*                                                                         *)
(* The zstd library is an external collaborator.  It is modelled by a      *)
(* small token codec that keeps the contracts the Python code relies on:   *)
(* a frame is  Magic, Fcs, data tokens, End ; the streaming steps advance  *)
(* the input and output cursors, buffer internally, return 0 exactly when  *)
(* a frame is complete and completely flushed, and hold back the last      *)
(* input byte of a frame (the hostage byte) while output is pending.       *)
(***************************************************************************)
EXTENDS Integers, Sequences, FiniteSets, TLC

\* ------------------------------------------------------------------ bounds

\* Longest payload of one frame.
MaxPayload == 2
\* Longest chunk a caller hands to one call (besides "all that is left").
MaxChunk == 2
\* Largest max_length a caller passes (besides -1, unbounded).
MaxOut == 3
\* Capacity of the decoder's internal buffer of decoded, unflushed bytes.
DCap == 1
\* Capacity of the encoder's internal input buffer (one block).
CBlock == 2
\* Most calls a caller makes on one compressor.
MaxCalls == 3
\* Largest read_size of a decompress_stream call.
MaxRead == 2
\* Largest write_size of a decompress_stream call.
MaxWrite == 2

\* ------------------------------------------------------------ sequences

Take(s, n) == SubSeq(s, 1, n)

Drop(s, n) == SubSeq(s, n + 1, Len(s))

Min(a, b) == IF a < b THEN a ELSE b

RECURSIVE Flatten(_)
Flatten(ss) == IF ss = <<>> THEN <<>> ELSE Head(ss) \o Flatten(Tail(ss))

RECURSIVE SumLen(_)
SumLen(ss) == IF ss = <<>> THEN 0 ELSE Len(Head(ss)) + SumLen(Tail(ss))

SeqsUpTo(S, n) == UNION { [1..k -> S] : k \in 0..n }

\* ---------------------------------------------------------- codec format

\* Payload bytes.
Bytes == 1..(2 * MaxPayload)

Payloads == SeqsUpTo(Bytes, MaxPayload)

\* The first token of every frame.
Magic == 20

\* The last token of every frame.
End == 0

\* Frame header field: the content size is not declared.
FcsUnknown == 29

\* An unwritten cell of freshly allocated memory.
Junk == 99

ZSTD_CONTENTSIZE_UNKNOWN == -1

ZSTD_CONTENTSIZE_ERROR == -2

\* Frame header field declaring a content size of n bytes.
Fcs(n) == 30 + n

IsFcs(t) == t >= FcsUnknown /\ t < Junk

\* A payload byte as the token that carries it, and back.
Enc(x) == 10 + x

IsData(t) == t \in { Enc(x) : x \in Bytes }

Dec(t) == t - 10

EncSeq(s) == [i \in 1..Len(s) |-> Enc(s[i])]

\* The frame the codec produces for payload b.
Frame(b, known) ==
  <<Magic, IF known THEN Fcs(Len(b)) ELSE FcsUnknown>> \o EncSeq(b) \o <<End>>

ZSTD_isError(code) == code < 0

\* ---------------------------------------------------------------- decoder

\* A decompression context at a frame start.
NewDCtx == [stage |-> "hdr0", pend |-> <<>>]

ZSTD_DCtx_reset(dc) == NewDCtx

\* One ZSTD_decompressStream call: dc is the context, inp the input from
\* in.pos on, room the free output bytes.  n is the input consumed, out the
\* bytes written, ret 0 (frame complete and flushed), 1 (more to do) or -1.
RECURSIVE DRun(_, _, _, _, _)
DRun(dc, inp, room, n, out) ==
  LET k     == Min(Len(dc.pend), room - Len(out))
      out1  == out \o Take(dc.pend, k)
      pend1 == Drop(dc.pend, k)
      dc1   == [dc EXCEPT !.pend = pend1]
      stop(d, m, r) == [dc |-> d, n |-> m, out |-> out1, ret |-> r]
  IN IF n = Len(inp) THEN stop(dc1, n, 1)
     ELSE LET t == inp[n + 1] IN
       CASE dc.stage = "hdr0" ->
              IF t = Magic
                THEN DRun([dc1 EXCEPT !.stage = "hdr1"], inp, room, n + 1, out1)
                ELSE stop(dc1, n, -1)
         [] dc.stage = "hdr1" ->
              IF IsFcs(t)
                THEN DRun([dc1 EXCEPT !.stage = "body"], inp, room, n + 1, out1)
                ELSE stop(dc1, n, -1)
         [] OTHER ->
              IF t = End
                THEN IF pend1 = <<>>
                       THEN stop(NewDCtx, n + 1, 0)
                       ELSE stop(dc1, n, 1)
              ELSE IF IsData(t)
                THEN IF Len(pend1) < DCap
                       THEN DRun([dc1 EXCEPT !.pend = Append(pend1, Dec(t))],
                                 inp, room, n + 1, out1)
                       ELSE stop(dc1, n, 1)
              ELSE stop(dc1, n, -1)

ZSTD_decompressStream(dc, inp, room) == DRun(dc, inp, room, 0, <<>>)

ZSTD_getFrameContentSize(data) ==
  IF Len(data) < 2 \/ data[1] # Magic THEN ZSTD_CONTENTSIZE_ERROR
  ELSE IF data[2] = FcsUnknown THEN ZSTD_CONTENTSIZE_UNKNOWN
  ELSE IF IsFcs(data[2]) THEN data[2] - Fcs(0)
  ELSE ZSTD_CONTENTSIZE_ERROR

\* ---------------------------------------------------- _BlocksOutputBuffer

\* The growth table, scaled down from 32 KB, 64 KB, 256 KB, ...
BUFFER_BLOCK_SIZE == <<2, 3, 4>>

NewBlock(n) == [i \in 1..n |-> Junk]

\* ok is FALSE once an assert of the buffer code has failed.
initAndGrow(max_length) ==
  LET block_size == IF 0 <= max_length /\ max_length < BUFFER_BLOCK_SIZE[1]
                      THEN max_length
                      ELSE BUFFER_BLOCK_SIZE[1]
  IN [list |-> <<NewBlock(block_size)>>, allocated |-> block_size,
      max_length |-> max_length, size |-> block_size, pos |-> 0, ok |-> TRUE]

\* A variant of initWithSize whose block holds nothing.
initWithSize_empty(init_size) ==
  [list |-> <<NewBlock(0)>>, allocated |-> 0,
   max_length |-> -1, size |-> 0, pos |-> 0, ok |-> TRUE]

\* initWithSize() (lines 137-151).
initWithSize(init_size) ==
  [list |-> <<NewBlock(init_size)>>, allocated |-> init_size,
   max_length |-> -1, size |-> init_size, pos |-> 0, ok |-> TRUE]

\* A variant of growBlockSize that does not clamp to max_length.
growBlockSize_unclamped(ob) ==
  IF Len(ob.list) < Len(BUFFER_BLOCK_SIZE)
    THEN BUFFER_BLOCK_SIZE[Len(ob.list) + 1]
    ELSE BUFFER_BLOCK_SIZE[Len(BUFFER_BLOCK_SIZE)]

\* The size of the block grow() adds (lines 157-172).
growBlockSize(ob) ==
  LET list_len == Len(ob.list)
      table    == IF list_len < Len(BUFFER_BLOCK_SIZE)
                    THEN BUFFER_BLOCK_SIZE[list_len + 1]
                    ELSE BUFFER_BLOCK_SIZE[Len(BUFFER_BLOCK_SIZE)]
      rest     == ob.max_length - ob.allocated
  IN IF ob.max_length >= 0 /\ table > rest THEN rest ELSE table

\* A variant of grow that leaves allocated as it is.
grow_without_count(ob) ==
  IF ob.pos # ob.size \/ (ob.max_length >= 0 /\ ob.max_length - ob.allocated <= 0)
    THEN [ob EXCEPT !.ok = FALSE]
    ELSE LET block_size == growBlockSize(ob)
         IN [ob EXCEPT !.list = Append(@, NewBlock(block_size)),
                       !.size = block_size,
                       !.pos = 0]

\* grow() (lines 153-184).
grow(ob) ==
  IF ob.pos # ob.size \/ (ob.max_length >= 0 /\ ob.max_length - ob.allocated <= 0)
    THEN [ob EXCEPT !.ok = FALSE]
    ELSE LET block_size == growBlockSize(ob)
         IN [ob EXCEPT !.list = Append(@, NewBlock(block_size)),
                       !.allocated = @ + block_size,
                       !.size = block_size,
                       !.pos = 0]

\* A variant of reachedMaxLength that never finds the cap reached.
reachedMaxLength_never(ob) == FALSE

\* A variant of reachedMaxLength that holds of every full block.
reachedMaxLength_when_full(ob) == TRUE

\* reachedMaxLength() (lines 186-190); its assert is the test the caller
\* makes before the call.
reachedMaxLength(ob) == ob.allocated = ob.max_length

\* The codec writes bytes at out.dst + out.pos and advances out.pos.
writeOut(ob, bytes) ==
  LET last == Len(ob.list)
  IN [ob EXCEPT !.list[last] =
                   [i \in 1..Len(@) |->
                      IF i > ob.pos /\ i <= ob.pos + Len(bytes)
                        THEN bytes[i - ob.pos] ELSE @[i]],
                !.pos = @ + Len(bytes)]

\* A variant of finish that always takes the fast path.
finish_first_block(ob) == ob.list[1]

\* A variant of finish whose fast path takes any two-block list.
finish_two_blocks(ob) ==
  IF (Len(ob.list) = 1 /\ ob.pos = ob.size) \/ Len(ob.list) = 2
    THEN ob.list[1]
    ELSE Flatten(Take(ob.list, Len(ob.list) - 1))
           \o Take(ob.list[Len(ob.list)], ob.pos)

finish(ob) ==
  IF (Len(ob.list) = 1 /\ ob.pos = ob.size) \/ (Len(ob.list) = 2 /\ ob.pos = 0)
    THEN ob.list[1]
    ELSE Flatten(Take(ob.list, Len(ob.list) - 1))
           \o Take(ob.list[Len(ob.list)], ob.pos)

\* ------------------------------------------------------------ _Decompressor

DECOMPRESSOR == "DECOMPRESSOR"

ENDLESS_DECOMPRESSOR == "ENDLESS_DECOMPRESSOR"

\* A variant of stop_at_frame that leaves the loop at every frame end.
stop_at_frame_any(type, zstd_ret, consumed) == zstd_ret = 0

\* Whether the loop of _decompress_impl is left at the flag update (lines
\* 750-761): the single-frame variant at the first frame end, the endless
\* variant at a frame end with the input consumed.
stop_at_frame(type, zstd_ret, consumed) ==
  IF type = DECOMPRESSOR THEN zstd_ret = 0
  ELSE zstd_ret = 0 /\ consumed

\* The loop of _decompress_impl.  st holds the codec context, in.pos, the
\* output buffer and the two flags; inp is the whole input view.
RECURSIVE decompress_loop(_, _, _)

\* One pass of the loop after its ZSTD_decompressStream call returned r
\* (lines 746-776).
decompress_pass(type, st, inp, r) ==
  LET ob1  == writeOut(st.ob, r.out)
      ipos == st.ipos + r.n
      eof1 == IF type = DECOMPRESSOR /\ r.ret = 0 THEN TRUE ELSE st.eof
      afe1 == IF type = ENDLESS_DECOMPRESSOR THEN r.ret = 0 ELSE st.afe
      st1  == [st EXCEPT !.dc = r.dc, !.ipos = ipos, !.ob = ob1,
                         !.eof = eof1, !.afe = afe1, !.zstd_ret = r.ret]
  IN IF ZSTD_isError(r.ret)
       THEN [st EXCEPT !.raised = "ZstdError", !.zstd_ret = r.ret]
     ELSE IF stop_at_frame(type, r.ret, ipos = Len(inp)) THEN st1
     ELSE IF ob1.pos = ob1.size
       THEN IF reachedMaxLength(ob1) THEN st1
            ELSE LET ob2 == grow(ob1)
                 IN IF ob2.ok
                      THEN decompress_loop(type, [st1 EXCEPT !.ob = ob2], inp)
                      ELSE [st1 EXCEPT !.ob = ob2, !.raised = "AssertionError"]
     ELSE IF ipos = Len(inp) THEN st1
     ELSE decompress_loop(type, st1, inp)

decompress_loop(type, st, inp) ==
  decompress_pass(type, st, inp,
                  ZSTD_decompressStream(st.dc, Drop(inp, st.ipos),
                                        st.ob.size - st.ob.pos))

\* The end of _decompress_impl (lines 778-779).
decompress_return(st) == st @@ [ret |-> finish(st.ob), called |-> TRUE]

\* _decompress_impl: ret is the returned bytes (meaningful when nothing is
\* raised), called is FALSE when the first at-frame-edge check returned early,
\* zstd_ret is what the last ZSTD_decompressStream call returned.
decompress_impl(type, self, inp, max_length, decompressed_size) ==
  LET st0 == [dc |-> self.dctx, ipos |-> 0, eof |-> self.eof,
              afe |-> self.at_frame_edge, raised |-> "none", zstd_ret |-> 1,
              ob |-> IF decompressed_size \in {ZSTD_CONTENTSIZE_UNKNOWN,
                                               ZSTD_CONTENTSIZE_ERROR}
                       THEN initAndGrow(max_length)
                       ELSE initWithSize(decompressed_size)]
  IN IF type = ENDLESS_DECOMPRESSOR /\ self.at_frame_edge /\ inp = <<>>
       THEN [st0 EXCEPT !.ob = initWithSize(0)] @@ [ret |-> <<>>, called |-> FALSE]
       ELSE decompress_return(decompress_loop(type, st0, inp))

\* The loop state _decompress_impl starts with (lines 727-741), and whether
\* the loop is entered: it is not when the first at-frame-edge check returns.
impl_start(type, self, inp, max_length, decompressed_size) ==
  LET st0 == [dc |-> self.dctx, ipos |-> 0, eof |-> self.eof,
              afe |-> self.at_frame_edge, raised |-> "none", zstd_ret |-> 1,
              ob |-> IF decompressed_size \in {ZSTD_CONTENTSIZE_UNKNOWN,
                                               ZSTD_CONTENTSIZE_ERROR}
                       THEN initAndGrow(max_length)
                       ELSE initWithSize(decompressed_size)]
  IN IF type = ENDLESS_DECOMPRESSOR /\ self.at_frame_edge /\ inp = <<>>
       THEN [st |-> [st0 EXCEPT !.ob = initWithSize(0)], go |-> FALSE]
       ELSE [st |-> st0, go |-> TRUE]

\* One pass of the loop of _decompress_impl (lines 743-776) after its codec
\* call returned r, for a thread that takes the call one pass at a time:
\* the loop state after the pass, and whether the loop goes on.
pass_once(type, st, inp, r) ==
  LET ob1  == writeOut(st.ob, r.out)
      ipos == st.ipos + r.n
      eof1 == IF type = DECOMPRESSOR /\ r.ret = 0 THEN TRUE ELSE st.eof
      afe1 == IF type = ENDLESS_DECOMPRESSOR THEN r.ret = 0 ELSE st.afe
      st1  == [st EXCEPT !.dc = r.dc, !.ipos = ipos, !.ob = ob1,
                         !.eof = eof1, !.afe = afe1, !.zstd_ret = r.ret]
  IN IF ZSTD_isError(r.ret)
       THEN [st |-> [st EXCEPT !.raised = "ZstdError", !.zstd_ret = r.ret], go |-> FALSE]
     ELSE IF stop_at_frame(type, r.ret, ipos = Len(inp)) THEN [st |-> st1, go |-> FALSE]
     ELSE IF ob1.pos = ob1.size
       THEN IF reachedMaxLength(ob1) THEN [st |-> st1, go |-> FALSE]
            ELSE LET ob2 == grow(ob1)
                 IN IF ob2.ok THEN [st |-> [st1 EXCEPT !.ob = ob2], go |-> TRUE]
                    ELSE [st |-> [st1 EXCEPT !.ob = ob2, !.raised = "AssertionError"],
                          go |-> FALSE]
     ELSE [st |-> st1, go |-> ipos # Len(inp)]

\* A decompressor instance as a record of its fields.
NewDecompressor(type) ==
  [type |-> type, needs_input |-> TRUE, input_buffer |-> <<>>,
   input_buffer_size |-> 0, in_begin |-> 0, in_end |-> 0,
   eof |-> FALSE, at_frame_edge |-> TRUE, unused_data |-> <<-1>>,
   dctx |-> NewDCtx]

\* memmove(dst + at, src, Len(src)) on a buffer of cells.
memmove(buf, at, src) ==
  [i \in 1..Len(buf) |->
     IF i > at /\ i <= at + Len(src) THEN src[i - at] ELSE buf[i]]

\* A variant of relocates that never asks for a new buffer.
relocates_never(avail_total, n) == FALSE

\* Whether the carry-over buffer is replaced by a larger one (line 830).
relocates(avail_total, n) == avail_total < n

\* A variant of compacts that never moves the carried bytes.
compacts_never(avail_now, n) == FALSE

\* Whether the carried bytes are moved to the start of the buffer (line
\* 848), when the buffer is not replaced.
compacts(avail_now, n) == avail_now < n

\* The n bytes at buf + at, as the codec reads them through in.src.  Bytes
\* beyond the buffer are shown as Junk.
view(buf, at, n) ==
  [i \in 1..n |-> IF at + i <= Len(buf) THEN buf[at + i] ELSE Junk]

\* The input view of _stream_decompress (lines 802-869): the instance with
\* its carry-over buffer prepared, the view handed to the codec, and
\* whether the view lies in the carry-over buffer.
prepare_input(self, data) ==
  IF self.in_begin = self.in_end
    THEN [self |-> self, use_input_buffer |-> FALSE, inp |-> data, ok |-> TRUE]
  ELSE IF Len(data) = 0
    THEN [self |-> self, use_input_buffer |-> TRUE,
          inp |-> SubSeq(self.input_buffer, self.in_begin + 1, self.in_end),
          ok |-> self.in_begin < self.in_end]
  ELSE
    LET used_now    == self.in_end - self.in_begin
        avail_now   == self.input_buffer_size - self.in_end
        avail_total == self.input_buffer_size - used_now
        old         == SubSeq(self.input_buffer, self.in_begin + 1, self.in_end)
        s1 == IF relocates(avail_total, Len(data))
                THEN [self EXCEPT
                        !.input_buffer = memmove(NewBlock(used_now + Len(data)), 0, old),
                        !.input_buffer_size = used_now + Len(data),
                        !.in_begin = 0, !.in_end = used_now]
              ELSE IF compacts(avail_now, Len(data))
                THEN [self EXCEPT
                        !.input_buffer = memmove(@, 0, old),
                        !.in_begin = 0, !.in_end = used_now]
              ELSE self
        s2 == [s1 EXCEPT !.input_buffer = memmove(@, s1.in_end, data),
                         !.in_end = @ + Len(data)]
    IN [self |-> s2, use_input_buffer |-> TRUE,
        inp |-> view(s2.input_buffer, s2.in_begin, used_now + Len(data)),
        ok |-> used_now > 0 /\ avail_now >= 0 /\ avail_total >= 0]

\* A variant of reset_on_error that leaves the codec session as it is.
reset_on_error_keep_session(self) ==
  [self EXCEPT !.in_begin = 0, !.in_end = 0, !.needs_input = TRUE,
               !.eof = IF self.type = DECOMPRESSOR THEN FALSE ELSE @,
               !.at_frame_edge = IF self.type = ENDLESS_DECOMPRESSOR THEN TRUE ELSE @]

\* The except handler of _stream_decompress (lines 914-927).
reset_on_error(self) ==
  [self EXCEPT !.in_begin = 0, !.in_end = 0, !.needs_input = TRUE,
               !.eof = IF self.type = DECOMPRESSOR THEN FALSE ELSE @,
               !.at_frame_edge = IF self.type = ENDLESS_DECOMPRESSOR THEN TRUE ELSE @,
               !.dctx = ZSTD_DCtx_reset(self.dctx)]

\* A variant of needs_input_after in which reaching the terminal boundary
\* of either decompressor asks for input.
needs_input_after_boundary(type, retlen, max_length, eof, at_frame_edge) ==
  ~(retlen = max_length /\ ~(IF type = DECOMPRESSOR THEN eof ELSE at_frame_edge))

\* A variant of needs_input_after that uses the single-frame rule for both.
needs_input_after_same(type, retlen, max_length, eof, at_frame_edge) ==
  ~(retlen = max_length \/ (IF type = DECOMPRESSOR THEN eof ELSE at_frame_edge))

\* needs_input after a call that consumed its whole input (lines 875-884).
needs_input_after(type, retlen, max_length, eof, at_frame_edge) ==
  IF type = DECOMPRESSOR
    THEN ~(retlen = max_length \/ eof)
    ELSE ~(retlen = max_length /\ ~at_frame_edge)

\* A variant of edge_with_leftover that leaves at_frame_edge as it is.
edge_with_leftover_kept(type, at_frame_edge) == at_frame_edge

\* at_frame_edge after a call that left input unconsumed (lines 894-895).
edge_with_leftover(type, at_frame_edge) ==
  IF type = ENDLESS_DECOMPRESSOR THEN FALSE ELSE at_frame_edge

\* A variant of carry_begin that assigns in.pos instead of adding it.
carry_begin_assign(in_begin, pos) == pos

\* in_begin after a call that left a part of the carry-over view unconsumed
\* (line 911).
carry_begin(in_begin, pos) == in_begin + pos

\* A variant of leftover that copies from the start of the view.
leftover_from_start(inp, ipos) == Take(inp, Len(inp) - ipos)

\* The bytes at in.src + in.pos that the bookkeeping copies into the
\* carry-over buffer (line 906).
leftover(inp, ipos) == Drop(inp, ipos)

\* The instance after each assignment of the input preparation (lines
\* 802-869), in order.
prepare_steps(self, data) ==
  IF self.in_begin = self.in_end \/ Len(data) = 0 THEN <<self>>
  ELSE
    LET used_now    == self.in_end - self.in_begin
        avail_now   == self.input_buffer_size - self.in_end
        avail_total == self.input_buffer_size - used_now
        old         == SubSeq(self.input_buffer, self.in_begin + 1, self.in_end)
        a1 == [self EXCEPT !.input_buffer =
                             memmove(NewBlock(used_now + Len(data)), 0, old)]
        a2 == [a1 EXCEPT !.input_buffer_size = used_now + Len(data)]
        a3 == [a2 EXCEPT !.in_begin = 0]
        a4 == [a3 EXCEPT !.in_end = used_now]
        b1 == [self EXCEPT !.input_buffer = memmove(@, 0, old)]
        b2 == [b1 EXCEPT !.in_begin = 0]
        b3 == [b2 EXCEPT !.in_end = used_now]
        moved == IF relocates(avail_total, Len(data)) THEN <<a1, a2, a3, a4>>
                 ELSE IF compacts(avail_now, Len(data)) THEN <<b1, b2, b3>>
                 ELSE <<self>>
        s1 == moved[Len(moved)]
        t1 == [s1 EXCEPT !.input_buffer = memmove(@, s1.in_end, data)]
        t2 == [t1 EXCEPT !.in_end = @ + Len(data)]
    IN moved \o <<t1, t2>>

\* The instance after each assignment of the except clause to the
\* carry-over window (lines 916-917).
except_steps(self) ==
  <<[self EXCEPT !.in_begin = 0], [self EXCEPT !.in_begin = 0, !.in_end = 0]>>

\* The instance after each assignment of the bookkeeping to the
\* carry-over buffer (lines 886-911), when _decompress_impl has left in.pos
\* at ipos in the view inp.
after_steps(self, use_input_buffer, inp, ipos) ==
  IF ipos = Len(inp)
    THEN IF use_input_buffer THEN except_steps(self) ELSE <<self>>
  ELSE IF use_input_buffer
    THEN <<[self EXCEPT !.in_begin = carry_begin(@, ipos)]>>
  ELSE
    LET data_size == Len(inp) - ipos
        small == self.input_buffer_size < data_size
        c1 == IF small THEN [self EXCEPT !.input_buffer = NewBlock(data_size)]
              ELSE self
        c2 == IF small THEN [c1 EXCEPT !.input_buffer_size = data_size] ELSE c1
        c3 == [c2 EXCEPT !.input_buffer = memmove(@, 0, leftover(inp, ipos))]
        c4 == [c3 EXCEPT !.in_begin = 0]
        c5 == [c4 EXCEPT !.in_end = data_size]
    IN <<c1, c2, c3, c4, c5>>

\* The steps of a whole call whose input was prepared as p and whose
\* _decompress_impl gave d.
call_steps(self, data, p, d) ==
  IF self.type = DECOMPRESSOR /\ self.eof THEN except_steps(self)
  ELSE IF ~p.ok THEN except_steps(self)
  ELSE prepare_steps(self, data)
         \o (IF d.raised # "none" THEN except_steps(p.self)
             ELSE after_steps(p.self, p.use_input_buffer, p.inp, d.ipos))

\* A variant of after_decompress that leaves the window as it is when the
\* whole input was consumed.
after_decompress_keeps_window(self, p, d, max_length) ==
  LET s0 == [p.self EXCEPT !.dctx = d.dc, !.eof = d.eof, !.at_frame_edge = d.afe]
      in_size == Len(p.inp)
  IN IF d.ipos = in_size
       THEN [s0 EXCEPT !.needs_input =
                         needs_input_after(self.type, Len(d.ret), max_length,
                                           s0.eof, s0.at_frame_edge)]
       ELSE LET data_size == in_size - d.ipos
                s1 == [s0 EXCEPT !.needs_input = FALSE,
                                 !.at_frame_edge = edge_with_leftover(self.type, @)]
            IN IF ~p.use_input_buffer
                 THEN LET s2 == IF s1.input_buffer_size < data_size
                                  THEN [s1 EXCEPT !.input_buffer = NewBlock(data_size),
                                                  !.input_buffer_size = data_size]
                                  ELSE s1
                      IN [s2 EXCEPT !.input_buffer = memmove(@, 0, leftover(p.inp, d.ipos)),
                                    !.in_begin = 0, !.in_end = data_size]
                 ELSE [s1 EXCEPT !.in_begin = carry_begin(@, d.ipos)]

\* The bookkeeping after _decompress_impl returned (lines 873-911).
after_decompress(self, p, d, max_length) ==
  LET s0 == [p.self EXCEPT !.dctx = d.dc, !.eof = d.eof, !.at_frame_edge = d.afe]
      in_size == Len(p.inp)
  IN IF d.ipos = in_size
       THEN LET ni == needs_input_after(self.type, Len(d.ret), max_length,
                                        s0.eof, s0.at_frame_edge)
            IN IF p.use_input_buffer
                 THEN [s0 EXCEPT !.needs_input = ni, !.in_begin = 0, !.in_end = 0]
                 ELSE [s0 EXCEPT !.needs_input = ni]
       ELSE LET data_size == in_size - d.ipos
                s1 == [s0 EXCEPT !.needs_input = FALSE,
                                 !.at_frame_edge = edge_with_leftover(self.type, @)]
            IN IF ~p.use_input_buffer
                 THEN LET s2 == IF s1.input_buffer_size < data_size
                                  THEN [s1 EXCEPT !.input_buffer = NewBlock(data_size),
                                                  !.input_buffer_size = data_size]
                                  ELSE s1
                      IN [s2 EXCEPT !.input_buffer = memmove(@, 0, leftover(p.inp, d.ipos)),
                                    !.in_begin = 0, !.in_end = data_size]
                 ELSE [s1 EXCEPT !.in_begin = carry_begin(@, d.ipos)]

\* The cells of the carry-over buffer outside [in_begin, in_end) are dead:
\* no code reads them before writing them.  They are shown as Junk, so that
\* two instances that differ only in dead memory are one state.
dead_cells(self) ==
  [self EXCEPT !.input_buffer =
     [i \in 1..Len(@) |->
        IF i > self.in_begin /\ i <= self.in_end THEN @[i] ELSE Junk]]

\* The size the fast path reads from the frame header (lines 785-800).
fast_path_size(self, data, max_length) ==
  IF self.type = ENDLESS_DECOMPRESSOR /\ self.at_frame_edge
     /\ max_length < 0 /\ self.in_begin = self.in_end
    THEN ZSTD_getFrameContentSize(data)
    ELSE ZSTD_CONTENTSIZE_UNKNOWN

\* The end of _stream_decompress after _decompress_impl gave d for the
\* prepared input p (lines 871-927).
stream_return(self, p, d, max_length) ==
  IF d.raised # "none"
    THEN [self |-> dead_cells(reset_on_error(p.self)), ret |-> <<>>,
          raised |-> d.raised, ob |-> d.ob, called |-> d.called,
          zstd_ret |-> d.zstd_ret, consumed |-> d.ipos = Len(p.inp)]
    ELSE [self |-> dead_cells(after_decompress(self, p, d, max_length)), ret |-> d.ret,
          raised |-> "none", ob |-> d.ob, called |-> d.called,
          zstd_ret |-> d.zstd_ret, consumed |-> d.ipos = Len(p.inp)]

\* _stream_decompress from the prepared input p on (lines 843-927).
stream_prepared(self, p, max_length, decompressed_size) ==
  IF ~p.ok
    THEN [self |-> dead_cells(reset_on_error(p.self)), ret |-> <<>>,
          raised |-> "AssertionError", ob |-> initWithSize(0), called |-> FALSE,
          zstd_ret |-> 1, consumed |-> FALSE]
    ELSE stream_return(self, p,
                       decompress_impl(self.type, p.self, p.inp, max_length,
                                       decompressed_size),
                       max_length)

\* _stream_decompress(data, max_length): the instance after the call, the
\* bytes returned, what was raised ("none" if nothing), the output buffer
\* the call ended with, the last codec return value and whether the whole
\* input view was consumed.
stream_decompress(self, data, max_length) ==
  IF self.type = DECOMPRESSOR /\ self.eof
    THEN [self |-> dead_cells(reset_on_error(self)), ret |-> <<>>, raised |-> "EOFError",
          ob |-> initWithSize(0), called |-> FALSE, zstd_ret |-> 1, consumed |-> FALSE]
    ELSE stream_prepared(self, prepare_input(self, data), max_length,
                         fast_path_size(self, data, max_length))

\* A variant of unused_data that slices the buffer from its start.
unused_data_from_start(self) ==
  IF ~self.eof THEN [self |-> self, ret |-> <<>>]
  ELSE IF self.unused_data = <<-1>>
    THEN LET v == IF self.input_buffer_size = 0 THEN <<>>
                  ELSE SubSeq(self.input_buffer, 1, self.in_end)
         IN [self |-> [self EXCEPT !.unused_data = v], ret |-> v]
  ELSE [self |-> self, ret |-> self.unused_data]

\* ZstdDecompressor.unused_data (lines 949-965): the instance after the read
\* (the value is cached) and the bytes returned.  <<-1>> stands for None.
unused_data(self) ==
  IF ~self.eof THEN [self |-> self, ret |-> <<>>]
  ELSE IF self.unused_data = <<-1>>
    THEN LET v == IF self.input_buffer_size = 0 THEN <<>>
                  ELSE SubSeq(self.input_buffer, self.in_begin + 1, self.in_end)
         IN [self |-> [self EXCEPT !.unused_data = v], ret |-> v]
  ELSE [self |-> self, ret |-> self.unused_data]

\* A variant of decompress_return_checked without the at_frame_edge check.
decompress_return_unchecked(r) == [ret |-> r.ret, raised |-> r.raised]

\* The end of decompress(data) after the decompressor's call gave r
\* (lines 997-1001).
decompress_return_checked(r) ==
  IF r.raised # "none" THEN [ret |-> <<>>, raised |-> r.raised]
  ELSE IF ~r.self.at_frame_edge THEN [ret |-> r.ret, raised |-> "ZstdError"]
  ELSE [ret |-> r.ret, raised |-> "none"]

\* decompress(data) (lines 988-1001).
decompress(data) ==
  decompress_return_checked(
    stream_decompress(NewDecompressor(ENDLESS_DECOMPRESSOR), data, -1))

\* ---------------------------------------------------------------- encoder

CONTINUE == "CONTINUE"

FLUSH_BLOCK == "FLUSH_BLOCK"

FLUSH_FRAME == "FLUSH_FRAME"

\* A compression context between frames.  stage is "init" (no session),
\* "started" (session begun, header not yet written), "open" (header
\* written) or "ending" (End queued, not yet flushed); fcs is the content
\* size the header declares, -1 if none; buf is the input block being
\* filled; pend the tokens produced and not yet flushed.
NewCCtx == [stage |-> "init", fcs |-> -1, buf |-> <<>>, pend |-> <<>>]

ZSTD_CCtx_reset(cc) == NewCCtx

RECURSIVE CRun(_, _, _, _, _, _)
CRun(cc, inp, room, directive, n, out) ==
  LET k     == Min(Len(cc.pend), room - Len(out))
      out1  == out \o Take(cc.pend, k)
      pend1 == Drop(cc.pend, k)
      m     == Min(Len(inp) - n, CBlock - Len(cc.buf))
      buf1  == cc.buf \o SubSeq(inp, n + 1, n + m)
      n1    == n + m
      all   == n1 = Len(inp)
      last  == directive = FLUSH_FRAME /\ all
      hdr   == IF cc.stage = "open" THEN <<>>
               ELSE <<Magic, IF cc.fcs >= 0 THEN Fcs(cc.fcs) ELSE FcsUnknown>>
      toks  == hdr \o EncSeq(buf1) \o (IF last THEN <<End>> ELSE <<>>)
      stop(c, j) == [cc |-> c, n |-> j, out |-> out1, ret |-> Len(c.pend)]
  IN IF pend1 # <<>> THEN stop([cc EXCEPT !.pend = pend1], n)
     ELSE IF cc.stage = "ending" THEN stop(NewCCtx, n)
     ELSE IF Len(buf1) = CBlock \/ last \/ (directive = FLUSH_BLOCK /\ all /\ buf1 # <<>>)
       THEN CRun([cc EXCEPT !.stage = IF last THEN "ending" ELSE "open",
                            !.buf = <<>>, !.pend = toks],
                 inp, room, directive, n1, out1)
     ELSE stop([cc EXCEPT !.buf = buf1, !.pend = <<>>], n1)

\* One ZSTD_compressStream2 call.  The first call of a session fixes the
\* declared content size: the input size if the call ends the frame.  A
\* session at stage "fault" is one whose next call fails (as when the codec
\* cannot get memory): it returns an error code and does nothing.
ZSTD_compressStream2(cc, inp, room, directive) ==
  IF cc.stage = "fault" THEN [cc |-> cc, n |-> 0, out |-> <<>>, ret |-> -1]
  ELSE
  CRun(IF cc.stage = "init"
         THEN [cc EXCEPT !.stage = "started",
                         !.fcs = IF directive = FLUSH_FRAME THEN Len(inp) ELSE -1]
         ELSE cc,
       inp, room, directive, 0, <<>>)

\* The worst-case compressed size of n bytes.
ZSTD_compressBound(n) == n + Len(Frame(<<>>, TRUE))

\* -------------------------------------------------------------- _Compressor

\* The loop of _compress_impl.  st holds the codec context, in.pos and the
\* output buffer.
RECURSIVE compress_loop(_, _, _)

\* One pass of the loop after its ZSTD_compressStream2 call returned r
\* (lines 548-555).
compress_pass(st, data, end_directive, r) ==
  LET st1 == [st EXCEPT !.cc = r.cc, !.ipos = @ + r.n, !.ob = writeOut(@, r.out)]
  IN IF ZSTD_isError(r.ret) THEN [st EXCEPT !.raised = "ZstdError"]
     ELSE IF r.ret = 0 THEN st1
     ELSE LET ob2 == grow(st1.ob)
          IN IF ob2.ok THEN compress_loop([st1 EXCEPT !.ob = ob2], data, end_directive)
             ELSE [st1 EXCEPT !.ob = ob2, !.raised = "AssertionError"]

compress_loop(st, data, end_directive) ==
  compress_pass(st, data, end_directive,
                ZSTD_compressStream2(st.cc, Drop(data, st.ipos),
                                     st.ob.size - st.ob.pos, end_directive))

\* The end of _compress_impl and of _compress_mt_continue_impl.
compress_return(st) == st @@ [ret |-> finish(st.ob)]

compress_impl(self, data, end_directive, rich_mem) ==
  compress_return(
    compress_loop(
      [cc |-> self.cctx, ipos |-> 0, raised |-> "none",
       ob |-> IF rich_mem THEN initWithSize(ZSTD_compressBound(Len(data)))
              ELSE initAndGrow(-1)],
      data, end_directive))

\* The inner loop of _compress_mt_continue_impl: the codec is called with
\* CONTINUE until the output block is full, the input is consumed or it fails.
RECURSIVE mt_inner(_, _)

\* One pass of the inner loop after its ZSTD_compressStream2 call returned r.
mt_inner_pass(st, data, r) ==
  LET st1 == [st EXCEPT !.cc = r.cc, !.ipos = @ + r.n, !.ob = writeOut(@, r.out),
                        !.zstd_ret = r.ret]
  IN IF st1.ob.pos = st1.ob.size \/ st1.ipos = Len(data) \/ ZSTD_isError(r.ret)
       THEN st1
       ELSE mt_inner(st1, data)

mt_inner(st, data) ==
  mt_inner_pass(st, data,
                ZSTD_compressStream2(st.cc, Drop(data, st.ipos),
                                     st.ob.size - st.ob.pos, CONTINUE))

RECURSIVE mt_loop(_, _)

\* One pass of the outer loop after its inner loop ended in st1.
mt_pass(st1, data) ==
  IF ZSTD_isError(st1.zstd_ret) THEN [st1 EXCEPT !.raised = "ZstdError"]
  ELSE IF st1.ipos = Len(data) THEN st1
  ELSE LET ob2 == grow(st1.ob)
       IN IF ob2.ok THEN mt_loop([st1 EXCEPT !.ob = ob2], data)
          ELSE [st1 EXCEPT !.ob = ob2, !.raised = "AssertionError"]

mt_loop(st, data) == mt_pass(mt_inner(st, data), data)

compress_mt_continue_impl(self, data) ==
  compress_return(
    mt_loop([cc |-> self.cctx, ipos |-> 0, raised |-> "none",
             zstd_ret |-> 0, ob |-> initAndGrow(-1)], data))

\* A ZstdCompressor instance as a record of its fields.
NewCompressor(use_multithreaded) ==
  [cctx |-> NewCCtx, use_multithreaded |-> use_multithreaded,
   last_mode |-> FLUSH_FRAME]

\* A variant of compress_locked whose except branch changes nothing.
compress_locked_no_except(self, st, mode) ==
  IF st.raised = "none"
    THEN [self |-> [self EXCEPT !.cctx = st.cc, !.last_mode = mode],
          ret |-> st.ret, raised |-> "none", ob |-> st.ob]
    ELSE [self |-> self, ret |-> <<>>, raised |-> st.raised, ob |-> st.ob]

\* The try/except of ZstdCompressor.compress and flush (lines 625-640).
compress_locked(self, st, mode) ==
  IF st.raised = "none"
    THEN [self |-> [self EXCEPT !.cctx = st.cc, !.last_mode = mode],
          ret |-> st.ret, raised |-> "none", ob |-> st.ob]
    ELSE [self |-> [self EXCEPT !.cctx = ZSTD_CCtx_reset(st.cc),
                                !.last_mode = FLUSH_FRAME],
          ret |-> <<>>, raised |-> st.raised, ob |-> st.ob]

\* ZstdCompressor.compress(data, mode).
ZstdCompressor_compress(self, data, mode) ==
  IF mode \notin {CONTINUE, FLUSH_BLOCK, FLUSH_FRAME}
    THEN [self |-> self, ret |-> <<>>, raised |-> "ValueError", ob |-> initWithSize(0)]
  ELSE IF self.use_multithreaded /\ mode = CONTINUE
    THEN compress_locked(self, compress_mt_continue_impl(self, data), mode)
  ELSE compress_locked(self, compress_impl(self, data, mode, FALSE), mode)

\* A variant of flush that always passes FLUSH_BLOCK to the codec.
ZstdCompressor_flush_block(self, mode) ==
  IF mode \notin {FLUSH_BLOCK, FLUSH_FRAME}
    THEN [self |-> self, ret |-> <<>>, raised |-> "ValueError", ob |-> initWithSize(0)]
    ELSE compress_locked(self, compress_impl(self, <<>>, FLUSH_BLOCK, FALSE), mode)

\* ZstdCompressor.flush(mode).
ZstdCompressor_flush(self, mode) ==
  IF mode \notin {FLUSH_BLOCK, FLUSH_FRAME}
    THEN [self |-> self, ret |-> <<>>, raised |-> "ValueError", ob |-> initWithSize(0)]
    ELSE compress_locked(self, compress_impl(self, <<>>, mode, FALSE), mode)

\* RichMemZstdCompressor.compress(data) (lines 677-688).
RichMem_compress(self, data) ==
  LET st == compress_impl(self, data, FLUSH_FRAME, TRUE)
  IN IF st.raised = "none"
       THEN [self |-> [self EXCEPT !.cctx = st.cc], ret |-> st.ret, raised |-> "none"]
       ELSE [self |-> [self EXCEPT !.cctx = ZSTD_CCtx_reset(st.cc)], ret |-> <<>>,
             raised |-> st.raised]

\* compress(data) (lines 980-982).
compress(data) == ZstdCompressor_compress(NewCompressor(FALSE), data, FLUSH_FRAME)

\* ------------------------------------------------------------------ state

VARIABLES
  payloads,   \* the payloads of the frames of the stream, in order
  stream,     \* the compressed stream the caller holds
  dec,        \* the decompressor instance
  fed,        \* how many bytes of stream the caller has passed to dec
  got,        \* the concatenation of the bytes dec has returned
  raised,     \* what the most recent call on dec raised ("none" if nothing)
  last,       \* the most recent decompress call on dec: arguments and outcome
  base,       \* how many bytes had been passed when dec's codec session began
  erred,      \* whether any call on dec has raised
  one,        \* the outcome of the one-shot decompress(data), or its absence
  limit,      \* the max_length of a caller that always passes the same one
  offer,      \* that caller's next call: its outcome for each chunk length
  ds,         \* the frame of a decompress_stream call: its locals and outcome
  cs,         \* the frame of a compress_stream call: its locals and outcome
  comp,       \* the compressor instance
  src,        \* the bytes the caller will compress
  csent,      \* how many bytes of src the caller has passed to comp
  cout,       \* the concatenation of the bytes comp has returned
  pat,        \* the shape of the calls on comp so far
  clast,      \* the most recent call on comp: its mode and what it raised
  ncalls,     \* the number of calls on comp so far
  lock,       \* the holder of the lock of dec and of comp (0: nobody)
  th,         \* each thread's position in its call, and the call's locals
  span,       \* dec's flags when the call in progress began, and its outcome
  obs,        \* what the most recent read of dec's properties returned
  ckind,      \* the class of comp when threads share it
  tcalls,     \* the number of calls the threads have begun
  zd,         \* a ZstdDict: its handle cache and its lock
  zt,         \* each thread's position in its call on zd
  prm,        \* the frame of a _set_c_parameters call: its locals and outcome
  zf,         \* a ZstdFile, the file under it, and the most recent call on it
  bc          \* a compress or decompress call taken one loop pass at a time

decVars == <<payloads, stream, dec, fed, got, raised, last, base, erred, one, limit, offer>>

compVars == <<comp, src, csent, cout, pat, clast, ncalls>>

pumpVars == <<ds, cs>>

threadVars == <<lock, th, span, obs, ckind, tcalls>>

dictVars == <<zd, zt>>

concVars == <<threadVars, dictVars>>

fileVars == <<prm, zf, bc>>

vars == <<decVars, compVars, pumpVars, concVars, fileVars>>

\* The payload of length n whose bytes are from + 1, from + 2, ...: all the
\* bytes of a stream differ, so a lost, repeated or misplaced byte shows.
Run(from, n) == [i \in 1..n |-> from + i]

\* No decompress call has been made on dec.
NoLast ==
  [made |-> FALSE, max_length |-> -1, retlen |-> 0, consumed |-> FALSE,
   called |-> FALSE, zstd_ret |-> 1, merge |-> "none"]

\* How the call self.decompress(data) gets its input view (lines 802-869):
\* from data alone, from the carry-over alone, or from the carry-over
\* buffer after data was appended to it in a new buffer, after a move to
\* the start, or in place.
Merge(self, data) ==
  [merge |-> IF self.type = DECOMPRESSOR /\ self.eof THEN "none"
             ELSE IF self.in_begin = self.in_end THEN "data"
             ELSE IF Len(data) = 0 THEN "carry"
             ELSE IF relocates(self.input_buffer_size
                                 - (self.in_end - self.in_begin), Len(data))
               THEN "relocated"
             ELSE IF compacts(self.input_buffer_size - self.in_end, Len(data))
               THEN "compacted"
             ELSE "appended"]

\* The record of a decompress call with outcome r.
LastOf(r, max_length) ==
  [made |-> TRUE, max_length |-> max_length, retlen |-> Len(r.ret),
   consumed |-> r.consumed, called |-> r.called, zstd_ret |-> r.zstd_ret,
   merge |-> r.merge]

\* One frame, or two concatenated frames.
PayloadLists ==
  { <<Run(0, a)>> : a \in 0..MaxPayload }
    \cup { <<Run(0, a), Run(a, b)>> : a \in 0..MaxPayload, b \in 0..MaxPayload }

FramesOf(ps, known) == [i \in 1..Len(ps) |-> Frame(ps[i], known)]

NoOne == [n |-> -1, ret |-> <<>>, raised |-> "none"]

\* No decompressor is in use.
DecIdle ==
  /\ payloads = <<>>
  /\ stream = <<>>
  /\ dec = NewDecompressor(DECOMPRESSOR)
  /\ fed = 0
  /\ got = <<>>
  /\ raised = "none"
  /\ last = NoLast
  /\ base = 0
  /\ erred = FALSE
  /\ one = NoOne
  /\ limit = -1
  /\ offer = <<>>

\* The locals of decompress_stream at its entry (lines 1185-1187), with the
\* arguments of the call.  faulty tells whether the allocator, the source,
\* the sink and the callback may fail in this call; ctx is the state of the
\* codec context of the call ("none", "null" when its creation failed,
\* "live", "freed") and frees counts the times it was freed.
NewPump(read_size, write_size, has_output, has_callback) ==
  [pc |-> "start",
   read_size |-> read_size, write_size |-> write_size,
   has_output |-> has_output, has_callback |-> has_callback,
   at_frame_edge |-> TRUE, total_input_size |-> 0, total_output_size |-> 0,
   dctx |-> NewDCtx,
   input_block |-> <<>>, in_size |-> 0, in_pos |-> 0, read_bytes |-> -1,
   output_block |-> <<>>, out_pos |-> 0, write_pos |-> 0, produced |-> <<>>,
   callback_read_pos |-> 0, cb_in |-> 0, cb_out |-> 0, cb_view |-> <<0, 0>>,
   write_bytes |-> 0, passes |-> 0, cb_count |-> 0, cb_args |-> <<0, 0>>,
   result |-> <<>>, exc |-> "none",
   faulty |-> FALSE, ctx |-> "none", frees |-> 0]

\* The locals of compress_stream at its entry (lines 1041-1044), with the
\* arguments of the call.  produced holds the bytes the codec has put
\* into the output block, pass after pass.
NewCPump(read_size, write_size, has_output, has_callback, use_multithreaded) ==
  [pc |-> "start",
   read_size |-> read_size, write_size |-> write_size,
   has_output |-> has_output, has_callback |-> has_callback,
   use_multithreaded |-> use_multithreaded,
   total_input_size |-> 0, total_output_size |-> 0,
   cctx |-> NewCCtx,
   input_block |-> <<>>, in_size |-> 0, in_pos |-> 0, read_bytes |-> -1,
   end_directive |-> CONTINUE, zstd_ret |-> 0,
   output_block |-> <<>>, out_pos |-> 0, write_pos |-> 0, produced |-> <<>>,
   callback_read_pos |-> 0, cb_in |-> 0, cb_out |-> 0, cb_view |-> <<0, 0>>,
   write_bytes |-> 0, passes |-> 0, cb_count |-> 0, cb_args |-> <<0, 0>>,
   result |-> <<>>, exc |-> "none",
   faulty |-> FALSE, ctx |-> "none", frees |-> 0]

\* No decompress_stream and no compress_stream call is in progress.
PumpIdle ==
  /\ ds = [NewPump(0, 0, FALSE, FALSE) EXCEPT !.pc = "idle"]
  /\ cs = [NewCPump(0, 0, FALSE, FALSE, FALSE) EXCEPT !.pc = "idle"]

\* No call has been made on comp.
NoCall == [made |-> FALSE, op |-> "none", mode |-> FLUSH_FRAME, raised |-> "none"]

\* The threads that share an instance.
Threads == {1, 2}

\* The loop state of a call that has not reached its loop.
NoSt ==
  [dc |-> NewDCtx, ipos |-> 0, eof |-> FALSE, afe |-> FALSE, raised |-> "none",
   zstd_ret |-> 1, ob |-> initWithSize(0)]

\* A thread outside any call.
IdleThread ==
  [pc |-> "idle", op |-> "none", data |-> <<>>, max_length |-> -1,
   mode |-> FLUSH_FRAME, fault |-> FALSE, use_input_buffer |-> FALSE,
   inp |-> <<>>, st |-> NoSt, raised |-> "none"]

\* The flags of a decompressor that its properties return.
Flags(d) ==
  [needs_input |-> d.needs_input, eof |-> d.eof, at_frame_edge |-> d.at_frame_edge]

\* No thread is in a call, and nothing has been read.
ThreadsIdle ==
  /\ lock = [dec |-> 0, comp |-> 0]
  /\ th = [t \in Threads |-> IdleThread]
  /\ span = [entry |-> Flags(NewDecompressor(DECOMPRESSOR)),
             exit |-> Flags(NewDecompressor(DECOMPRESSOR)),
             after |-> NewDecompressor(DECOMPRESSOR)]
  /\ obs = [made |-> FALSE, inside |-> FALSE,
            flags |-> Flags(NewDecompressor(DECOMPRESSOR)),
            entry |-> Flags(NewDecompressor(DECOMPRESSOR)),
            exit |-> Flags(NewDecompressor(DECOMPRESSOR))]
  /\ ckind = "ZstdCompressor"
  /\ tcalls = 0

\* A ZstdDict after __init__ (lines 217-219): no handle is cached (0 stands
\* for NULL), the lock is free, and no handle has been created.
NewZstdDict ==
  [cdicts |-> <<>>, ddict |-> 0, lock |-> 0,
   created |-> <<>>, given |-> {}, calls |-> 0]

\* A thread outside any call on the dictionary.
IdleDictThread ==
  [pc |-> "idle", op |-> "none", level |-> 0, ret |-> 0, raised |-> "none"]

\* No dictionary is in use.
DictIdle ==
  /\ zd = NewZstdDict
  /\ zt = [t \in Threads |-> IdleDictThread]

\* The frame of a _set_c_parameters call (lines 412-421) on a build with or
\* without multithreading support and with an old or a new codec: option
\* holds the entries the loop has not reached, applied the (key, value)
\* pairs given to ZSTD_CCtx_setParameter, warnings the keys warned about.
NewParams(support_mt, old_zstd, level_or_option) ==
  [pc |-> "start", support_mt |-> support_mt, old_zstd |-> old_zstd,
   level_or_option |-> level_or_option, option |-> <<>>, posi |-> 0,
   level |-> 0, use_multithread |-> FALSE,
   applied |-> <<>>, warnings |-> <<>>, raised |-> "none"]

\* A ZstdFile after the first lines of __init__ (lines 1469-1471), the
\* file under it (whether it is open, the bytes written to it, how often
\* it was closed), and the calls made: made is whether __init__ has run,
\* nclose the number of close() calls, last the most recent call with what
\* it raised, what it returned and how many bytes it wrote to the file.
\* has_compressor tells whether _compressor is unset, set or None.
NoFile ==
  [self |-> [mode |-> "CLOSED", fp |-> "none", closefp |-> FALSE,
             compressor |-> NewCompressor(FALSE), has_compressor |-> "unset",
             buffer |-> "unset", pos |-> 0],
   file |-> [open |-> FALSE, bytes |-> <<>>, closes |-> 0],
   made |-> FALSE, faulty |-> FALSE, ops |-> 0, nclose |-> 0,
   last |-> [op |-> "none", raised |-> "none", ret |-> "none", wrote |-> 0]]

\* No call is being taken pass by pass.  st is the loop state, r what the
\* most recent codec call returned, ob the output buffer as it is now,
\* entered whether the loop was entered,
\* with_size whether the buffer was made by initWithSize and init_size with
\* which size, grows the number of grow() calls of the call, frames the
\* number of frame ends the codec reported in it, fin what finish() found
\* when it last ran, cc0 the codec context a compress call began with, and
\* calls the number of calls begun.
NoBuf ==
  [pc |-> "idle", kind |-> "none", st |-> NoSt,
   r |-> [n |-> 0, ret |-> 1, out |-> <<>>], ob |-> initWithSize(0),
   inp |-> <<>>, use_input_buffer |-> FALSE, max_length |-> -1,
   mode |-> FLUSH_FRAME, entered |-> FALSE, with_size |-> FALSE,
   init_size |-> 0, grows |-> 0, frames |-> 0,
   cc0 |-> NewCCtx,
   fin |-> [ran |-> FALSE, kind |-> "none", with_size |-> FALSE,
            init_size |-> 0, blocks |-> 0, grows |-> 0, frames |-> 0,
            consumed |-> FALSE, zstd_ret |-> 1, produced |-> 0],
   raised |-> "none", calls |-> 0]

\* No parameter is being set, no file is in use and no call is being taken
\* pass by pass.
FilesIdle ==
  /\ prm = [NewParams(TRUE, FALSE, [kind |-> "int", value |-> 0, items |-> <<>>])
             EXCEPT !.pc = "idle"]
  /\ zf = NoFile
  /\ bc = NoBuf

\* No compressor is in use.
CompIdle ==
  /\ comp = NewCompressor(FALSE)
  /\ src = <<>>
  /\ csent = 0
  /\ cout = <<>>
  /\ pat = "start"
  /\ clast = NoCall
  /\ ncalls = 0

Init ==
  /\ payloads \in PayloadLists
  /\ \E known \in BOOLEAN : stream = Flatten(FramesOf(payloads, known))
  /\ \E type \in {DECOMPRESSOR, ENDLESS_DECOMPRESSOR} : dec = NewDecompressor(type)
  /\ fed = 0
  /\ got = <<>>
  /\ raised = "none"
  /\ last = NoLast
  /\ base = 0
  /\ erred = FALSE
  /\ one = NoOne
  /\ limit = -1
  /\ offer = <<>>
  /\ CompIdle
  /\ PumpIdle
  /\ ThreadsIdle
  /\ DictIdle
  /\ FilesIdle

\* The chunk lengths a caller may pass next: short ones, or all that is left.
ChunkLens == { n \in 0..(Len(stream) - fed) : n <= MaxChunk \/ n = Len(stream) - fed }

\* The max_length values a caller may pass; -1 is unbounded.
MaxLengths == -1..MaxOut

NextChunk(n) == SubSeq(stream, fed + 1, fed + n)

\* dec.decompress(data, max_length) with the next n bytes of the stream.
Decompress ==
  /\ one = NoOne
  /\ \E n \in ChunkLens, max_length \in MaxLengths :
       \E r \in {stream_decompress(dec, NextChunk(n), max_length)
                 @@ Merge(dec, NextChunk(n))} :
          /\ dec' = r.self
          /\ fed' = fed + n
          /\ got' = IF r.raised = "none" THEN got \o r.ret ELSE got
          /\ raised' = r.raised
          /\ last' = LastOf(r, max_length)
          /\ base' = IF r.raised # "none" THEN fed + n ELSE base
          /\ erred' = (erred \/ r.raised # "none")
  /\ UNCHANGED <<payloads, stream, one, limit, offer, compVars, pumpVars, concVars, fileVars>>

\* A read of ZstdDecompressor.unused_data.
ReadUnusedData ==
  /\ one = NoOne
  /\ dec.type = DECOMPRESSOR
  /\ dec' = unused_data(dec).self
  /\ UNCHANGED <<payloads, stream, fed, got, raised, last, base, erred, one, limit, offer, compVars, pumpVars, concVars, fileVars>>

\* The module function decompress(data) on the first n bytes of the stream.
OneShot ==
  /\ one = NoOne
  /\ fed = 0 /\ got = <<>> /\ ~erred
  /\ \E n \in 0..Len(stream) :
       \E r \in {decompress(Take(stream, n))} :
          one' = [n |-> n, ret |-> r.ret, raised |-> r.raised]
  /\ UNCHANGED <<payloads, stream, dec, fed, got, raised, last, base, erred, limit, offer, compVars, pumpVars, concVars, fileVars>>

Next == Decompress \/ ReadUnusedData \/ OneShot

Spec == Init /\ [][Next]_vars

\* ------------------------------------------------ damaged compressed data

\* The longest payload of a frame of a damaged stream.
MaxDamaged == 1

\* The payloads of the frames of a stream that is then damaged: one frame,
\* or two concatenated frames.
DamagedPayloadLists ==
  { <<Run(0, a)>> : a \in 0..MaxDamaged }
    \cup { <<Run(0, a), Run(a, b)>> : a \in 0..MaxDamaged, b \in 0..MaxDamaged }

\* s with the byte at position i replaced by one no frame can hold there.
Damaged(s, i) == [s EXCEPT ![i] = Junk]

\* As Init, but one byte of the stream is damaged.
InitE ==
  /\ payloads \in DamagedPayloadLists
  /\ \E known \in BOOLEAN :
       LET whole == Flatten(FramesOf(payloads, known))
       IN \E i \in 1..Len(whole) : stream = Damaged(whole, i)
  /\ \E type \in {DECOMPRESSOR, ENDLESS_DECOMPRESSOR} : dec = NewDecompressor(type)
  /\ fed = 0
  /\ got = <<>>
  /\ raised = "none"
  /\ last = NoLast
  /\ base = 0
  /\ erred = FALSE
  /\ one = NoOne
  /\ limit = -1
  /\ offer = <<>>
  /\ CompIdle
  /\ PumpIdle
  /\ ThreadsIdle
  /\ DictIdle
  /\ FilesIdle

SpecE == InitE /\ [][Next]_vars

\* ------------------------------------------- data after the last frame

\* What may follow the last frame of the stream: nothing, or the first
\* byte of one more frame.
Tails == {<<>>, <<Magic>>}

\* Two frames and a tail, passed to a ZstdDecompressor.
InitU ==
  /\ payloads \in { <<Run(0, a), Run(a, b)>> : a \in 0..MaxDamaged, b \in 0..MaxDamaged }
  /\ \E known \in BOOLEAN, tail \in Tails :
       stream = Flatten(FramesOf(payloads, known)) \o tail
  /\ dec = NewDecompressor(DECOMPRESSOR)
  /\ fed = 0
  /\ got = <<>>
  /\ raised = "none"
  /\ last = NoLast
  /\ base = 0
  /\ erred = FALSE
  /\ one = NoOne
  /\ limit = -1
  /\ offer = <<>>
  /\ CompIdle
  /\ PumpIdle
  /\ ThreadsIdle
  /\ DictIdle
  /\ FilesIdle

SpecU == InitU /\ [][Next]_vars

\* ------------------------------------- a caller that honours needs_input

\* The chunk lengths of the caller after it has fed f bytes to d: a next
\* non-empty chunk when needs_input is true and input is left, b'' otherwise.
HonourLens(d, f) ==
  IF d.needs_input /\ f < Len(stream)
    THEN { n \in 1..(Len(stream) - f) : n <= MaxChunk \/ n = Len(stream) - f }
    ELSE {0}

\* The outcome of d.decompress(chunk, N) for each chunk the caller may pass.
Offers(d, f, N) ==
  [n \in HonourLens(d, f) |-> stream_decompress(d, SubSeq(stream, f + 1, f + n), N)]

InitH ==
  /\ payloads \in PayloadLists
  /\ \E known \in BOOLEAN : stream = Flatten(FramesOf(payloads, known))
  /\ \E type \in {DECOMPRESSOR, ENDLESS_DECOMPRESSOR} : dec = NewDecompressor(type)
  /\ fed = 0
  /\ got = <<>>
  /\ raised = "none"
  /\ last = NoLast
  /\ base = 0
  /\ erred = FALSE
  /\ one = NoOne
  /\ limit \in 1..MaxOut
  /\ offer = Offers(dec, fed, limit)
  /\ CompIdle
  /\ PumpIdle
  /\ ThreadsIdle
  /\ DictIdle
  /\ FilesIdle

hvars == <<dec, fed, got, raised, erred>>

\* What one pass of the caller's loop does to the decompressor and to the
\* caller's counters: dec.decompress(chunk, limit).  The caller of a
\* ZstdDecompressor leaves the loop at eof.
HonourStep ==
  /\ ~(dec.type = DECOMPRESSOR /\ dec.eof)
  /\ \E n \in DOMAIN offer :
       /\ dec' = offer[n].self
       /\ fed' = fed + n
       /\ got' = IF offer[n].raised = "none" THEN got \o offer[n].ret ELSE got
       /\ raised' = offer[n].raised
       /\ erred' = (erred \/ offer[n].raised # "none")

\* One pass of the caller's loop.
HonourCall ==
  /\ HonourStep
  /\ offer' = Offers(dec', fed', limit)
  /\ \E n \in DOMAIN offer :
       /\ fed' = fed + n
       /\ last' = LastOf(offer[n] @@ Merge(dec, SubSeq(stream, fed + 1, fed + n)),
                         limit)
       /\ base' = IF offer[n].raised # "none" THEN fed + n ELSE base
  /\ UNCHANGED <<payloads, stream, one, limit, compVars, pumpVars, concVars, fileVars>>

\* The calls are blocking and run to completion, and the loop goes on: a
\* pass that can change the state is eventually made.
SpecH == InitH /\ [][HonourCall]_vars /\ WF_hvars(HonourStep)

\* ------------------------------------------------- the compressor's callers

\* The bytes a caller compresses: every sequence over two byte values.
Sources == SeqsUpTo({1, 2}, MaxPayload)

InitC ==
  /\ DecIdle
  /\ \E use_multithreaded \in BOOLEAN : comp = NewCompressor(use_multithreaded)
  /\ src \in Sources
  /\ csent = 0
  /\ cout = <<>>
  /\ pat = "start"
  /\ clast = NoCall
  /\ ncalls = 0
  /\ PumpIdle
  /\ ThreadsIdle
  /\ DictIdle
  /\ FilesIdle

\* The shape of the calls so far: "start" (none), "continue" (only
\* compress(chunk, CONTINUE)), "oneshot" (one compress(data, FLUSH_FRAME)),
\* "flushed" (compress(chunk, CONTINUE)... then flush(FLUSH_FRAME)), "other".
PatAfter(op, mode) ==
  IF pat = "start" /\ op = "compress" /\ mode = FLUSH_FRAME THEN "oneshot"
  ELSE IF pat \in {"start", "continue"} /\ op = "compress" /\ mode = CONTINUE
    THEN "continue"
  ELSE IF pat \in {"start", "continue"} /\ op = "flush" /\ mode = FLUSH_FRAME
    THEN "flushed"
  ELSE "other"

\* comp.compress(data, mode) with the next n bytes of src.
Compress ==
  /\ ncalls < MaxCalls
  /\ \E n \in 0..(Len(src) - csent), mode \in {CONTINUE, FLUSH_BLOCK, FLUSH_FRAME} :
       \E r \in {ZstdCompressor_compress(comp, SubSeq(src, csent + 1, csent + n), mode)} :
          /\ comp' = r.self
          /\ csent' = csent + n
          /\ cout' = cout \o r.ret
          /\ pat' = PatAfter("compress", mode)
          /\ clast' = [made |-> TRUE, op |-> "compress", mode |-> mode, raised |-> r.raised]
  /\ ncalls' = ncalls + 1
  /\ UNCHANGED <<src, decVars, pumpVars, concVars, fileVars>>

\* comp.flush(mode).
Flush ==
  /\ ncalls < MaxCalls
  /\ \E mode \in {FLUSH_BLOCK, FLUSH_FRAME} :
       \E r \in {ZstdCompressor_flush(comp, mode)} :
          /\ comp' = r.self
          /\ cout' = cout \o r.ret
          /\ pat' = PatAfter("flush", mode)
          /\ clast' = [made |-> TRUE, op |-> "flush", mode |-> mode, raised |-> r.raised]
  /\ ncalls' = ncalls + 1
  /\ UNCHANGED <<src, csent, decVars, pumpVars, concVars, fileVars>>

NextC == Compress \/ Flush

SpecC == InitC /\ [][NextC]_vars

\* ------------------------------------------------------- a failing codec

\* comp as a call finds it when the codec is about to fail.
Faulty(c) == [c EXCEPT !.cctx.stage = "fault"]

\* comp.compress(data, mode) or comp.flush(mode) during which the codec
\* fails.
FailingCall ==
  /\ ncalls < MaxCalls
  /\ \E n \in 0..(Len(src) - csent), mode \in {CONTINUE, FLUSH_BLOCK, FLUSH_FRAME},
        op \in {"compress", "flush"} :
       /\ op = "flush" => (n = 0 /\ mode # CONTINUE)
       /\ \E r \in {IF op = "compress"
                       THEN ZstdCompressor_compress(Faulty(comp),
                                                    SubSeq(src, csent + 1, csent + n), mode)
                       ELSE ZstdCompressor_flush(Faulty(comp), mode)} :
            /\ comp' = r.self
            /\ csent' = csent + n
            /\ cout' = cout \o r.ret
            /\ pat' = "other"
            /\ clast' = [made |-> TRUE, op |-> op, mode |-> mode, raised |-> r.raised]
  /\ ncalls' = ncalls + 1
  /\ UNCHANGED <<src, decVars, pumpVars, concVars, fileVars>>

\* comp.compress(data, mode) or comp.flush(mode) with a mode that the
\* method does not accept.
BadModeCall ==
  /\ ncalls < MaxCalls
  /\ \E op \in {"compress", "flush"} :
       \E mode \in IF op = "compress" THEN {"NO_MODE"} ELSE {CONTINUE, "NO_MODE"} :
         \E r \in {IF op = "compress" THEN ZstdCompressor_compress(comp, <<>>, mode)
                                       ELSE ZstdCompressor_flush(comp, mode)} :
            /\ comp' = r.self
            /\ cout' = cout \o r.ret
            /\ pat' = "other"
            /\ clast' = [made |-> TRUE, op |-> op, mode |-> mode, raised |-> r.raised]
  /\ ncalls' = ncalls + 1
  /\ UNCHANGED <<src, csent, decVars, pumpVars, concVars, fileVars>>

NextF == Compress \/ Flush \/ FailingCall \/ BadModeCall

SpecF == InitC /\ [][NextF]_vars

\* ------------------------------------------------------ decompress_stream

\* A variant of wrong_value that tests the lower bound only.
wrong_value_negative(n, most) == n < 0

\* The test of the count that readinto or write returned (lines 1014,
\* 1116, 1245).
wrong_value(n, most) == n < 0 \/ n > most

\* A variant of written that offers the block from its start each time.
written_from_start(d, write_bytes) ==
  SubSeq(d.output_block, 1, Min(write_bytes, d.out_pos - d.write_pos))

\* The bytes the sink takes in one write call of _write_to_output (lines
\* 1006-1009): the first write_bytes ones of out_mv[write_pos:out_buf.pos].
written(d, write_bytes) ==
  SubSeq(d.output_block, d.write_pos + 1,
         d.write_pos + Min(write_bytes, d.out_pos - d.write_pos))

\* A variant of invoke_callback that passes the sizes of this pass.
invoke_callback_pass_sizes(d) ==
  [d EXCEPT !.cb_in = @ + (d.in_size - d.callback_read_pos),
            !.cb_out = @ + d.out_pos,
            !.cb_view = <<d.in_size - d.callback_read_pos, d.out_pos>>,
            !.callback_read_pos = d.in_size,
            !.cb_count = @ + 1,
            !.cb_args = <<d.in_size - d.callback_read_pos, d.out_pos>>]

\* A variant of invoke_callback that yields the whole chunk every time.
invoke_callback_whole_chunk(d) ==
  [d EXCEPT !.cb_in = @ + d.in_size,
            !.cb_out = @ + d.out_pos,
            !.cb_view = <<d.in_size, d.out_pos>>,
            !.cb_count = @ + 1,
            !.cb_args = <<d.total_input_size, d.total_output_size>>]

\* _invoke_callback (lines 1020-1035) on the frame d of a pump: cb_count
\* counts the invocations, cb_args holds the first two arguments of the
\* most recent one, cb_view the lengths of its input view and of its output
\* view, cb_in and cb_out sum the lengths of the input views and of the
\* output views.
invoke_callback(d) ==
  [d EXCEPT !.cb_in = @ + (d.in_size - d.callback_read_pos),
            !.cb_out = @ + d.out_pos,
            !.cb_view = <<d.in_size - d.callback_read_pos, d.out_pos>>,
            !.callback_read_pos = d.in_size,
            !.cb_count = @ + 1,
            !.cb_args = <<d.total_input_size, d.total_output_size>>]

\* The end of one pass of the inner loop (lines 1282-1291): the callback,
\* which is yielded the read data once, and the test that leaves the loop.
finish_cycle(d) ==
  LET d1 == IF d.has_callback THEN invoke_callback(d) ELSE d
  IN [d1 EXCEPT !.pc = IF d1.in_pos = d1.in_size THEN "check" ELSE "cycle"]

\* The callback of a pass may raise when the collaborators may fail.
finish_cycle_cb(d, cb_raises) ==
  IF d.has_callback /\ d.faulty /\ cb_raises
    THEN [invoke_callback(d) EXCEPT !.pc = "raised", !.exc = "CallbackError"]
    ELSE finish_cycle(d)

\* A variant of pump_finally that frees the context only after a return.
pump_finally_on_return(d) ==
  IF d.pc = "returned" /\ d.ctx = "live"
    THEN [d EXCEPT !.ctx = "freed", !.frees = @ + 1]
    ELSE d

\* The finally clause of decompress_stream and of compress_stream (lines
\* 1306-1307 and 1178-1179), applied to the frame d a step ends with: when
\* the step leaves the function, the context is freed.  Freeing NULL does
\* nothing.
pump_finally(d) ==
  IF d.pc \in {"returned", "raised"} /\ d.ctx \in {"live", "freed"}
    THEN [d EXCEPT !.ctx = "freed", !.frees = @ + 1]
    ELSE d

\* A variant of end_of_input that reads again after a count of 0 at a
\* frame edge.
end_of_input_reads_on(d) ==
  IF d.read_bytes = 0 /\ ~d.at_frame_edge
    THEN [d EXCEPT !.pc = "raised", !.exc = "ZstdError"]
    ELSE [d EXCEPT !.pc = "read"]

\* A variant of end_of_input that returns whatever at_frame_edge is.
end_of_input_unchecked(d) ==
  IF d.read_bytes = 0
    THEN [d EXCEPT !.pc = "returned",
                   !.result = <<d.total_input_size, d.total_output_size>>]
    ELSE [d EXCEPT !.pc = "read"]

\* The test after the inner loop (lines 1293-1305).
end_of_input(d) ==
  IF d.read_bytes = 0
    THEN IF ~d.at_frame_edge
           THEN [d EXCEPT !.pc = "raised", !.exc = "ZstdError"]
           ELSE [d EXCEPT !.pc = "returned",
                          !.result = <<d.total_input_size, d.total_output_size>>]
    ELSE [d EXCEPT !.pc = "read"]

\* A decompress_stream call on a source that holds stream.
InitP ==
  /\ payloads \in PayloadLists
  /\ \E known \in BOOLEAN : stream = Flatten(FramesOf(payloads, known))
  /\ dec = NewDecompressor(ENDLESS_DECOMPRESSOR)
  /\ fed = 0
  /\ got = <<>>
  /\ raised = "none"
  /\ last = NoLast
  /\ base = 0
  /\ erred = FALSE
  /\ one = NoOne
  /\ limit = -1
  /\ offer = <<>>
  /\ CompIdle
  /\ \E read_size \in 0..MaxRead, write_size \in 0..MaxWrite,
        has_output \in BOOLEAN, has_callback \in BOOLEAN :
       ds = NewPump(read_size, write_size, has_output, has_callback)
  /\ cs = [NewCPump(0, 0, FALSE, FALSE, FALSE) EXCEPT !.pc = "idle"]
  /\ ThreadsIdle
  /\ DictIdle
  /\ FilesIdle

\* The parameter checks (lines 1189-1207) and the creation of the context
\* and of the blocks (lines 1209-1235).
DS_Start ==
  /\ ds.pc = "start"
  /\ \E created \in IF ds.faulty THEN {"live", "null", "MemoryError"} ELSE {"live"} :
       ds' = IF ~ds.has_output /\ ~ds.has_callback
               THEN [ds EXCEPT !.pc = "raised", !.exc = "TypeError"]
             ELSE IF ds.read_size <= 0 \/ ds.write_size <= 0
               THEN [ds EXCEPT !.pc = "raised", !.exc = "ValueError"]
             ELSE IF created = "null"
               THEN pump_finally([ds EXCEPT !.pc = "raised", !.exc = "ZstdError",
                                            !.ctx = "null"])
             ELSE IF created = "MemoryError"
               THEN pump_finally([ds EXCEPT !.pc = "raised", !.exc = "MemoryError",
                                            !.ctx = "live"])
             ELSE [ds EXCEPT !.pc = "read", !.ctx = "live"]
  /\ UNCHANGED <<cs, decVars, compVars, concVars, fileVars>>

\* input_stream.readinto(input_block) and what follows it (lines 1233-1249).
\* The source returns None, a wrong value, or the number of bytes it has
\* put into the block; 0 reports the end of the input.
DS_Readinto ==
  /\ ds.pc = "read"
  /\ \/ UNCHANGED <<ds, fed>>
     \/ /\ ds.faulty
        /\ ds' = pump_finally([ds EXCEPT !.pc = "raised", !.exc = "SourceError"])
        /\ UNCHANGED fed
     \/ \E read_bytes \in {-1, ds.read_size + 1}
                            \cup 0..Min(ds.read_size, Len(stream) - fed) :
          \E taken \in {IF wrong_value(read_bytes, ds.read_size) THEN 0
                        ELSE Min(read_bytes, Len(stream) - fed)} :
            /\ ds' = IF wrong_value(read_bytes, ds.read_size)
                       THEN pump_finally([ds EXCEPT !.pc = "raised",
                                                    !.exc = "ValueError",
                                                    !.read_bytes = read_bytes])
                       ELSE [ds EXCEPT !.pc = "cycle",
                                       !.read_bytes = read_bytes,
                                       !.total_input_size = @ + read_bytes,
                                       !.input_block = NextChunk(taken),
                                       !.in_size = read_bytes,
                                       !.in_pos = 0,
                                       !.callback_read_pos = 0]
            /\ fed' = fed + taken
  /\ UNCHANGED <<cs, payloads, stream, dec, got, raised, last, base, erred, one, limit,
                 offer, compVars, concVars, fileVars>>

\* One pass of the inner loop up to the write (lines 1252-1279).
DS_Cycle ==
  /\ ds.pc = "cycle"
  /\ \E cb_raises \in BOOLEAN :
       \E r \in {ZSTD_decompressStream(ds.dctx, Drop(ds.input_block, ds.in_pos),
                                       ds.write_size)} :
         \E d \in {[ds EXCEPT !.dctx = r.dc,
                              !.in_pos = @ + r.n,
                              !.output_block = r.out,
                              !.out_pos = Len(r.out),
                              !.write_pos = 0,
                              !.at_frame_edge = (r.ret = 0),
                              !.total_output_size = @ + Len(r.out),
                              !.produced = @ \o r.out,
                              !.passes = @ + 1]} :
           ds' = pump_finally(
                   IF ds.at_frame_edge /\ ds.in_pos = ds.in_size
                     THEN [ds EXCEPT !.pc = "check"]
                   ELSE IF ZSTD_isError(r.ret)
                     THEN [ds EXCEPT !.pc = "raised", !.exc = "ZstdError"]
                   ELSE IF d.has_output /\ d.write_pos < d.out_pos
                     THEN [d EXCEPT !.pc = "write"]
                   ELSE finish_cycle_cb(d, cb_raises))
  /\ UNCHANGED <<cs, decVars, compVars, concVars, fileVars>>

\* One output_stream.write call of _write_to_output (lines 1003-1018), and
\* the rest of the pass when the block is written.  The sink returns None,
\* a wrong value, or the number of bytes it has taken.
DS_Write ==
  /\ ds.pc = "write"
  /\ LET left_bytes == ds.out_pos - ds.write_pos
     IN \/ UNCHANGED <<ds, got>>
        \/ /\ ds.faulty
           /\ ds' = pump_finally([ds EXCEPT !.pc = "raised", !.exc = "SinkError"])
           /\ UNCHANGED got
        \/ \E write_bytes \in -1..(left_bytes + 1), cb_raises \in BOOLEAN :
             LET d == [ds EXCEPT !.write_pos = @ + write_bytes,
                                 !.write_bytes = write_bytes]
             IN IF wrong_value(write_bytes, left_bytes)
                  THEN /\ ds' = pump_finally([ds EXCEPT !.pc = "raised",
                                                       !.exc = "ValueError",
                                                       !.write_bytes = write_bytes])
                       /\ UNCHANGED got
                  ELSE /\ ds' = IF d.write_pos < d.out_pos THEN d
                                ELSE pump_finally(finish_cycle_cb(d, cb_raises))
                       /\ got' = got \o written(ds, write_bytes)
  /\ UNCHANGED <<cs, payloads, stream, dec, fed, raised, last, base, erred, one, limit,
                 offer, compVars, concVars, fileVars>>

\* The end of a pass of the outer loop (lines 1293-1307).
DS_EndCheck ==
  /\ ds.pc = "check"
  /\ ds' = pump_finally(end_of_input(ds))
  /\ UNCHANGED <<cs, decVars, compVars, concVars, fileVars>>

NextP == DS_Start \/ DS_Readinto \/ DS_Cycle \/ DS_Write \/ DS_EndCheck

SpecP == InitP /\ [][NextP]_vars

\* -------------------------------------------------------- compress_stream

\* The multi-threaded inner loop (lines 1140-1145): the codec is called
\* with CONTINUE until the output block is full, the input is consumed or
\* it fails.
RECURSIVE cs_mt_loop(_, _, _, _, _)

\* One pass of that loop after its ZSTD_compressStream2 call returned r.
cs_mt_pass(inp, room, n, out, r) ==
  IF Len(out) + Len(r.out) = room \/ n + r.n = Len(inp) \/ ZSTD_isError(r.ret)
    THEN [cc |-> r.cc, n |-> n + r.n, out |-> out \o r.out, ret |-> r.ret]
    ELSE cs_mt_loop(r.cc, inp, room, n + r.n, out \o r.out)

cs_mt_loop(cc, inp, room, n, out) ==
  cs_mt_pass(inp, room, n, out,
             ZSTD_compressStream2(cc, Drop(inp, n), room - Len(out), CONTINUE))

\* The codec call of one pass (lines 1139-1147).
cs_codec(cc, inp, room, end_directive, use_multithreaded) ==
  IF use_multithreaded /\ end_directive = CONTINUE
    THEN cs_mt_loop(cc, inp, room, 0, <<>>)
    ELSE ZSTD_compressStream2(cc, inp, room, end_directive)

\* A variant of cs_finish_cycle that leaves the loop when the chunk is
\* consumed, whatever the directive.
cs_finish_cycle_when_consumed(d, cb_raises) ==
  IF d.has_callback /\ d.faulty /\ cb_raises
    THEN [invoke_callback(d) EXCEPT !.pc = "raised", !.exc = "CallbackError"]
    ELSE LET d1 == IF d.has_callback THEN invoke_callback(d) ELSE d
         IN [d1 EXCEPT !.pc = IF d1.in_pos = d1.in_size THEN "check" ELSE "cycle"]

\* The end of one pass of the inner loop (lines 1159-1171): the callback,
\* which may raise when the collaborators may fail, and the test that
\* leaves the loop.
cs_finish_cycle(d, cb_raises) ==
  IF d.has_callback /\ d.faulty /\ cb_raises
    THEN [invoke_callback(d) EXCEPT !.pc = "raised", !.exc = "CallbackError"]
    ELSE LET d1 == IF d.has_callback THEN invoke_callback(d) ELSE d
         IN [d1 EXCEPT !.pc = IF (IF d1.end_directive = CONTINUE
                                    THEN d1.in_pos = d1.in_size
                                    ELSE d1.zstd_ret = 0)
                                THEN "check" ELSE "cycle"]

\* A variant of empty_input that never finds the input empty.
empty_input_never(read_bytes, total_input_size) == FALSE

\* The test that keeps compress_stream from generating an empty frame
\* (line 1121).
empty_input(read_bytes, total_input_size) ==
  read_bytes = 0 /\ total_input_size = 0

\* The parameter checks (lines 1046-1073) and the creation of the context
\* and of the blocks (lines 1075-1106).
CS_Start ==
  /\ cs.pc = "start"
  /\ \E created \in IF cs.faulty THEN {"live", "null", "MemoryError"} ELSE {"live"} :
       cs' = IF ~cs.has_output /\ ~cs.has_callback
               THEN [cs EXCEPT !.pc = "raised", !.exc = "TypeError"]
             ELSE IF cs.read_size <= 0 \/ cs.write_size <= 0
               THEN [cs EXCEPT !.pc = "raised", !.exc = "ValueError"]
             ELSE IF created = "null"
               THEN pump_finally([cs EXCEPT !.pc = "raised", !.exc = "ZstdError",
                                            !.ctx = "null"])
             ELSE IF created = "MemoryError"
               THEN pump_finally([cs EXCEPT !.pc = "raised", !.exc = "MemoryError",
                                            !.ctx = "live"])
             ELSE [cs EXCEPT !.pc = "read", !.ctx = "live"]
  /\ UNCHANGED <<ds, decVars, compVars, concVars, fileVars>>

\* input_stream.readinto(input_block) and what follows it (lines
\* 1110-1131).  The source returns None, a wrong value, or the number of
\* bytes it has put into the block; 0 reports the end of the input.
CS_Readinto ==
  /\ cs.pc = "read"
  /\ \/ UNCHANGED <<cs, csent>>
     \/ /\ cs.faulty
        /\ cs' = pump_finally([cs EXCEPT !.pc = "raised", !.exc = "SourceError"])
        /\ UNCHANGED csent
     \/ \E read_bytes \in {-1, cs.read_size + 1}
                            \cup 0..Min(cs.read_size, Len(src) - csent) :
          \E taken \in {IF wrong_value(read_bytes, cs.read_size) THEN 0
                        ELSE Min(read_bytes, Len(src) - csent)} :
            /\ cs' = IF wrong_value(read_bytes, cs.read_size)
                       THEN pump_finally([cs EXCEPT !.pc = "raised",
                                                    !.exc = "ValueError",
                                                    !.read_bytes = read_bytes])
                     ELSE IF empty_input(read_bytes, cs.total_input_size)
                       THEN pump_finally(
                              [cs EXCEPT !.pc = "returned", !.read_bytes = read_bytes,
                                         !.result = <<cs.total_input_size,
                                                      cs.total_output_size>>])
                     ELSE [cs EXCEPT !.pc = "cycle",
                                     !.read_bytes = read_bytes,
                                     !.total_input_size = @ + read_bytes,
                                     !.input_block = SubSeq(src, csent + 1,
                                                            csent + taken),
                                     !.in_size = read_bytes,
                                     !.in_pos = 0,
                                     !.callback_read_pos = 0,
                                     !.end_directive = IF read_bytes = 0
                                                         THEN FLUSH_FRAME ELSE CONTINUE]
            /\ csent' = csent + taken
  /\ UNCHANGED <<ds, comp, src, cout, pat, clast, ncalls, decVars, concVars, fileVars>>

\* One pass of the inner loop up to the write (lines 1134-1157).  The
\* codec may fail when the collaborators may.
CS_Cycle ==
  /\ cs.pc = "cycle"
  /\ \E fault \in IF cs.faulty THEN BOOLEAN ELSE {FALSE}, cb_raises \in BOOLEAN :
       \E r \in {cs_codec(IF fault THEN [cs.cctx EXCEPT !.stage = "fault"] ELSE cs.cctx,
                           Drop(cs.input_block, cs.in_pos), cs.write_size,
                           cs.end_directive, cs.use_multithreaded)} :
         \E d \in {[cs EXCEPT !.cctx = r.cc,
                              !.in_pos = @ + r.n,
                              !.output_block = r.out,
                              !.out_pos = Len(r.out),
                              !.write_pos = 0,
                              !.zstd_ret = r.ret,
                              !.total_output_size = @ + Len(r.out),
                              !.produced = @ \o r.out,
                              !.passes = @ + 1]} :
           cs' = pump_finally(
                   IF ZSTD_isError(r.ret)
                     THEN [cs EXCEPT !.pc = "raised", !.exc = "ZstdError"]
                   ELSE IF d.has_output /\ d.write_pos < d.out_pos
                     THEN [d EXCEPT !.pc = "write"]
                   ELSE cs_finish_cycle(d, cb_raises))
  /\ UNCHANGED <<ds, decVars, compVars, concVars, fileVars>>

\* One output_stream.write call of _write_to_output (lines 1003-1018), and
\* the rest of the pass when the block is written.
CS_Write ==
  /\ cs.pc = "write"
  /\ \/ UNCHANGED <<cs, cout>>
     \/ /\ cs.faulty
        /\ cs' = pump_finally([cs EXCEPT !.pc = "raised", !.exc = "SinkError"])
        /\ UNCHANGED cout
     \/ \E write_bytes \in -1..(cs.out_pos - cs.write_pos + 1),
           cb_raises \in BOOLEAN :
          \E d \in {[cs EXCEPT !.write_pos = @ + write_bytes,
                               !.write_bytes = write_bytes]} :
            IF wrong_value(write_bytes, cs.out_pos - cs.write_pos)
              THEN /\ cs' = pump_finally([cs EXCEPT !.pc = "raised",
                                                   !.exc = "ValueError",
                                                   !.write_bytes = write_bytes])
                   /\ UNCHANGED cout
              ELSE /\ cs' = IF d.write_pos < d.out_pos THEN d
                            ELSE pump_finally(cs_finish_cycle(d, cb_raises))
                   /\ cout' = cout \o written(cs, write_bytes)
  /\ UNCHANGED <<ds, comp, src, csent, pat, clast, ncalls, decVars, concVars, fileVars>>

\* The end of a pass of the outer loop (lines 1173-1179).
CS_EndCheck ==
  /\ cs.pc = "check"
  /\ cs' = pump_finally(
             IF cs.read_bytes = 0
               THEN [cs EXCEPT !.pc = "returned",
                               !.result = <<cs.total_input_size, cs.total_output_size>>]
               ELSE [cs EXCEPT !.pc = "read"])
  /\ UNCHANGED <<ds, decVars, compVars, concVars, fileVars>>

\* ------------------------------ the pumps with collaborators that may fail

\* A decompress_stream call on a source that holds a stream, damaged or
\* not, or a compress_stream call on a source that holds src; the
\* allocator, the source, the sink, the callback and the codec may fail.
InitS ==
  /\ dec = NewDecompressor(ENDLESS_DECOMPRESSOR)
  /\ fed = 0
  /\ got = <<>>
  /\ raised = "none"
  /\ last = NoLast
  /\ base = 0
  /\ erred = FALSE
  /\ one = NoOne
  /\ limit = -1
  /\ offer = <<>>
  /\ comp = NewCompressor(FALSE)
  /\ csent = 0
  /\ cout = <<>>
  /\ pat = "start"
  /\ clast = NoCall
  /\ ncalls = 0
  /\ \E read_size \in 0..MaxRead, write_size \in 0..MaxWrite,
        has_output \in BOOLEAN, has_callback \in BOOLEAN :
       \/ /\ payloads \in DamagedPayloadLists
          /\ \E known \in BOOLEAN :
               LET whole == Flatten(FramesOf(payloads, known))
               IN \E i \in 0..Len(whole) :
                    stream = IF i = 0 THEN whole ELSE Damaged(whole, i)
          /\ src = <<>>
          /\ ds = [NewPump(read_size, write_size, has_output, has_callback)
                     EXCEPT !.faulty = TRUE]
          /\ cs = [NewCPump(0, 0, FALSE, FALSE, FALSE) EXCEPT !.pc = "idle"]
       \/ /\ payloads = <<>>
          /\ stream = <<>>
          /\ src \in SeqsUpTo({1}, MaxDamaged + 1)
          /\ ds = [NewPump(0, 0, FALSE, FALSE) EXCEPT !.pc = "idle"]
          /\ \E use_multithreaded \in BOOLEAN :
               cs = [NewCPump(read_size, write_size, has_output, has_callback,
                              use_multithreaded) EXCEPT !.faulty = TRUE]
  /\ ThreadsIdle
  /\ DictIdle
  /\ FilesIdle

NextS ==
  \/ DS_Start \/ DS_Readinto \/ DS_Cycle \/ DS_Write \/ DS_EndCheck
  \/ CS_Start \/ CS_Readinto \/ CS_Cycle \/ CS_Write \/ CS_EndCheck

SpecS == InitS /\ [][NextS]_vars

\* The pumps with collaborators that let them go on.  The interpreter runs
\* the function's own steps; a source that would block returns a count in
\* the end, and a sink that takes nothing takes a byte in the end: a step
\* that changes the frame is taken when it stays possible.  The source is
\* finite, so its counts end with 0.  A pump is one sequential function:
\* at each of its control points one action is possible, so fairness of
\* the next step is fairness of each action.
FairPump == WF_vars(NextS)

\* A decompress_stream call on two frames or on two frames cut short by a
\* byte, or a compress_stream call on a source that holds src; each has a
\* sink, and the collaborators may fail or not.
InitL ==
  /\ dec = NewDecompressor(ENDLESS_DECOMPRESSOR)
  /\ fed = 0
  /\ got = <<>>
  /\ raised = "none"
  /\ last = NoLast
  /\ base = 0
  /\ erred = FALSE
  /\ one = NoOne
  /\ limit = -1
  /\ offer = <<>>
  /\ comp = NewCompressor(FALSE)
  /\ csent = 0
  /\ cout = <<>>
  /\ pat = "start"
  /\ clast = NoCall
  /\ ncalls = 0
  /\ \E read_size \in 0..MaxRead, write_size \in 1..MaxWrite,
        has_callback \in BOOLEAN, faulty \in BOOLEAN :
       \/ /\ payloads = <<Run(0, MaxDamaged), Run(MaxDamaged, MaxDamaged)>>
          /\ \E known \in BOOLEAN, cut \in 0..1 :
               LET whole == Flatten(FramesOf(payloads, known))
               IN stream = Take(whole, Len(whole) - cut)
          /\ src = <<>>
          /\ ds = [NewPump(read_size, write_size, TRUE, has_callback)
                     EXCEPT !.faulty = faulty]
          /\ cs = [NewCPump(0, 0, FALSE, FALSE, FALSE) EXCEPT !.pc = "idle"]
       \/ /\ payloads = <<>>
          /\ stream = <<>>
          /\ src \in {<<>>, [i \in 1..(MaxDamaged + 1) |-> 1]}
          /\ ds = [NewPump(0, 0, FALSE, FALSE) EXCEPT !.pc = "idle"]
          /\ \E use_multithreaded \in BOOLEAN :
               cs = [NewCPump(read_size, write_size, TRUE, has_callback,
                              use_multithreaded) EXCEPT !.faulty = faulty]
  /\ ThreadsIdle
  /\ DictIdle
  /\ FilesIdle

SpecL == InitL /\ [][NextS]_vars /\ FairPump

\* ---------------------------------------------- threads sharing instances

\* The calls the threads make in all.
MaxThreadCalls == 2

\* A variant of acquire_ok that never waits.
acquire_always(holder) == TRUE

\* Lock.acquire() returns when nobody holds the lock.
acquire_ok(holder) == holder = 0

\* A variant of finally_release that releases only when nothing was raised.
release_on_return(holder, exc) == IF exc = "none" THEN 0 ELSE holder

\* The holder of the lock after the finally clause of a call.
finally_release(holder, exc) == 0

\* The instance a call is made on.
Obj(op) == IF op \in {"decompress", "unused_data"} THEN "dec" ELSE "comp"

\* Where a thread is between the acquire and the release of the lock.
Inside == {"enter", "loop", "post", "except", "body", "release"}

\* What the threads do not touch.
decRest == <<payloads, stream, got, raised, last, base, erred, one, limit, offer>>

compRest == <<src, csent, cout, pat, clast, ncalls>>

\* The threads share a decompressor (ckind is "none") or a compressor of
\* class ckind.  The stream is two frames, of no byte and of one byte.
InitT ==
  /\ payloads = <<Run(0, 0), Run(0, 1)>>
  /\ \E known \in BOOLEAN : stream = Flatten(FramesOf(payloads, known))
  /\ \E type \in {DECOMPRESSOR, ENDLESS_DECOMPRESSOR} : dec = NewDecompressor(type)
  /\ fed = 0
  /\ got = <<>>
  /\ raised = "none"
  /\ last = NoLast
  /\ base = 0
  /\ erred = FALSE
  /\ one = NoOne
  /\ limit = -1
  /\ offer = <<>>
  /\ CompIdle
  /\ PumpIdle
  /\ lock = [dec |-> 0, comp |-> 0]
  /\ th = [t \in Threads |-> IdleThread]
  /\ span = [entry |-> Flags(dec), exit |-> Flags(dec), after |-> dec]
  /\ obs = [made |-> FALSE, inside |-> FALSE, flags |-> Flags(dec),
            entry |-> Flags(dec), exit |-> Flags(dec)]
  /\ ckind \in {"none", "ZstdCompressor", "RichMemZstdCompressor"}
  /\ tcalls = 0
  /\ DictIdle
  /\ FilesIdle

\* The threads are alike: the one that makes the first call is called 1.
FirstCaller(t) == tcalls = 0 => t = 1

\* The max_length values the threads pass: unbounded, or one byte.
ThreadMaxLengths == {-1, 1}

\* Thread t calls dec.decompress(chunk, max_length) or reads
\* dec.unused_data: it is about to acquire the lock.
T_CallDec(t) ==
  /\ ckind = "none"
  /\ th[t].pc = "idle"
  /\ FirstCaller(t)
  /\ tcalls < MaxThreadCalls
  /\ \/ \E n \in ChunkLens, max_length \in ThreadMaxLengths :
          /\ th' = [th EXCEPT ![t] = [IdleThread EXCEPT !.pc = "wait",
                                         !.op = "decompress", !.data = NextChunk(n),
                                         !.max_length = max_length]]
          /\ fed' = fed + n
     \/ /\ dec.type = DECOMPRESSOR
        /\ th' = [th EXCEPT ![t] = [IdleThread EXCEPT !.pc = "wait",
                                                      !.op = "unused_data"]]
        /\ fed' = fed
  /\ tcalls' = tcalls + 1
  /\ UNCHANGED <<dec, decRest, compVars, pumpVars, lock, span, obs, ckind, dictVars, fileVars>>

\* Thread t calls comp.compress or comp.flush, during which the codec may
\* fail: it is about to acquire the lock.
T_CallComp(t) ==
  /\ ckind # "none"
  /\ th[t].pc = "idle"
  /\ FirstCaller(t)
  /\ tcalls < MaxThreadCalls
  /\ \E op \in IF ckind = "ZstdCompressor" THEN {"compress", "flush"} ELSE {"richmem"},
        data \in SeqsUpTo({1}, 1), mode \in {CONTINUE, FLUSH_BLOCK, FLUSH_FRAME},
        fault \in BOOLEAN :
       /\ op = "flush" => (data = <<>> /\ mode # CONTINUE)
       /\ op = "richmem" => mode = FLUSH_FRAME
       /\ th' = [th EXCEPT ![t] = [IdleThread EXCEPT !.pc = "wait", !.op = op,
                                                     !.data = data, !.mode = mode,
                                                     !.fault = fault]]
  /\ tcalls' = tcalls + 1
  /\ UNCHANGED <<decVars, compVars, pumpVars, lock, span, obs, ckind, dictVars, fileVars>>

\* self._lock.acquire() returns in thread t.
T_Acquire(t) ==
  /\ th[t].pc = "wait"
  /\ acquire_ok(lock[Obj(th[t].op)])
  /\ lock' = [lock EXCEPT ![Obj(th[t].op)] = t]
  /\ th' = [th EXCEPT ![t].pc = IF th[t].op = "decompress" THEN "enter" ELSE "body"]
  /\ IF th[t].op = "decompress"
       THEN \E r \in {stream_decompress(dec, th[t].data, th[t].max_length)} :
              span' = [entry |-> Flags(dec), exit |-> Flags(r.self), after |-> r.self]
       ELSE IF th[t].op = "unused_data"
         THEN span' = [entry |-> Flags(dec), exit |-> Flags(dec),
                       after |-> unused_data(dec).self]
       ELSE span' = span
  /\ UNCHANGED <<decVars, compVars, pumpVars, obs, ckind, tcalls, dictVars, fileVars>>

\* The start of _stream_decompress under the lock: the eof check, the
\* merge of the carry-over with data, and the start of _decompress_impl.
T_Enter(t) ==
  /\ th[t].pc = "enter"
  /\ IF dec.type = DECOMPRESSOR /\ dec.eof
       THEN /\ th' = [th EXCEPT ![t].pc = "except", ![t].raised = "EOFError"]
            /\ dec' = dec
       ELSE \E p \in {prepare_input(dec, th[t].data)},
               size \in {fast_path_size(dec, th[t].data, th[t].max_length)} :
              /\ dec' = p.self
              /\ IF ~p.ok
                   THEN th' = [th EXCEPT ![t].pc = "except",
                                         ![t].raised = "AssertionError"]
                   ELSE \E q \in {impl_start(dec.type, p.self, p.inp,
                                              th[t].max_length, size)} :
                          th' = [th EXCEPT ![t].pc = IF q.go THEN "loop" ELSE "post",
                                           ![t].use_input_buffer = p.use_input_buffer,
                                           ![t].inp = p.inp,
                                           ![t].st = q.st]
  /\ UNCHANGED <<fed, decRest, compVars, pumpVars, lock, span, obs, ckind, tcalls,
                 dictVars, fileVars>>

\* One pass of the loop of _decompress_impl in thread t: the codec call,
\* and the writes of self._eof or self._at_frame_edge.
T_Pass(t) ==
  /\ th[t].pc = "loop"
  /\ \E r \in {ZSTD_decompressStream(th[t].st.dc, Drop(th[t].inp, th[t].st.ipos),
                                       th[t].st.ob.size - th[t].st.ob.pos)} :
       \E q \in {pass_once(dec.type, th[t].st, th[t].inp, r)} :
         /\ dec' = [dec EXCEPT !.dctx = q.st.dc, !.eof = q.st.eof,
                               !.at_frame_edge = q.st.afe]
         /\ th' = [th EXCEPT ![t].st = q.st,
                             ![t].raised = q.st.raised,
                             ![t].pc = IF q.st.raised # "none" THEN "except"
                                       ELSE IF q.go THEN "loop" ELSE "post"]
  /\ UNCHANGED <<fed, decRest, compVars, pumpVars, lock, span, obs, ckind, tcalls,
                 dictVars, fileVars>>

\* The bookkeeping of _stream_decompress after _decompress_impl returned.
T_Post(t) ==
  /\ th[t].pc = "post"
  /\ dec' = dead_cells(
              after_decompress(dec,
                               [self |-> dec,
                                use_input_buffer |-> th[t].use_input_buffer,
                                inp |-> th[t].inp],
                               decompress_return(th[t].st), th[t].max_length))
  /\ th' = [th EXCEPT ![t].pc = "release"]
  /\ UNCHANGED <<fed, decRest, compVars, pumpVars, lock, span, obs, ckind, tcalls,
                 dictVars, fileVars>>

\* The except clause of _stream_decompress.
T_Except(t) ==
  /\ th[t].pc = "except"
  /\ dec' = dead_cells(reset_on_error(dec))
  /\ th' = [th EXCEPT ![t].pc = "release"]
  /\ UNCHANGED <<fed, decRest, compVars, pumpVars, lock, span, obs, ckind, tcalls,
                 dictVars, fileVars>>

\* The body of unused_data, compress or flush under the lock, with its
\* except clause.
T_Body(t) ==
  /\ th[t].pc = "body"
  /\ IF th[t].op = "unused_data"
       THEN /\ dec' = unused_data(dec).self
            /\ comp' = comp
            /\ th' = [th EXCEPT ![t].pc = "release"]
       ELSE \E c \in {IF th[t].fault THEN Faulty(comp) ELSE comp} :
              \E r \in {IF th[t].op = "compress"
                          THEN ZstdCompressor_compress(c, th[t].data, th[t].mode)
                        ELSE IF th[t].op = "flush"
                          THEN ZstdCompressor_flush(c, th[t].mode)
                        ELSE RichMem_compress(c, th[t].data)} :
                /\ comp' = r.self
                /\ dec' = dec
                /\ th' = [th EXCEPT ![t].pc = "release", ![t].raised = r.raised]
  /\ UNCHANGED <<fed, decRest, compRest, pumpVars, lock, span, obs, ckind, tcalls,
                 dictVars, fileVars>>

\* The finally clause: self._lock.release().
T_Release(t) ==
  /\ th[t].pc = "release"
  /\ lock' = [lock EXCEPT ![Obj(th[t].op)] = finally_release(@, th[t].raised)]
  /\ th' = [th EXCEPT ![t] = [IdleThread EXCEPT !.op = th[t].op,
                                                !.raised = th[t].raised]]
  /\ UNCHANGED <<decVars, compVars, pumpVars, span, obs, ckind, tcalls, dictVars, fileVars>>

\* A thread reads needs_input, eof and at_frame_edge of dec (lines 723-725,
\* 945-947, 976-978): the getters return the fields as they are.  One read
\* is followed, made while a call holds the lock.
T_Read ==
  /\ ckind = "none"
  /\ ~obs.made
  /\ lock.dec # 0
  /\ obs' = [made |-> TRUE, inside |-> lock.dec # 0, flags |-> Flags(dec),
             entry |-> span.entry, exit |-> span.exit]
  /\ UNCHANGED <<decVars, compVars, pumpVars, lock, th, span, ckind, tcalls, dictVars, fileVars>>

NextT ==
  \/ \E t \in Threads :
       \/ T_CallDec(t) \/ T_CallComp(t) \/ T_Acquire(t) \/ T_Enter(t) \/ T_Pass(t)
       \/ T_Post(t) \/ T_Except(t) \/ T_Body(t) \/ T_Release(t)
  \/ T_Read

SpecT == InitT /\ [][NextT]_vars

\* ------------------------------------------ the mode argument and the lock

\* A variant of mode_ok that accepts every mode.
mode_ok_any(op, mode) == TRUE

\* The test of the mode argument at the start of ZstdCompressor.compress
\* (lines 617-619) and of ZstdCompressor.flush (line 643).
mode_ok(op, mode) ==
  IF op = "compress" THEN mode \in {CONTINUE, FLUSH_BLOCK, FLUSH_FRAME}
  ELSE mode \in {FLUSH_BLOCK, FLUSH_FRAME}

\* The mode arguments a caller may pass: the three directives, and a value
\* that is none of them.
Modes == {CONTINUE, FLUSH_BLOCK, FLUSH_FRAME, "NO_MODE"}

\* Thread t calls comp.compress(b'', mode) or comp.flush(mode) with any
\* mode: the method raises ValueError at once, or is about to acquire the
\* lock.
T_CallMode(t) ==
  /\ ckind = "ZstdCompressor"
  /\ th[t].pc = "idle"
  /\ FirstCaller(t)
  /\ tcalls < MaxThreadCalls
  /\ \E op \in {"compress", "flush"}, mode \in Modes :
       th' = [th EXCEPT ![t] =
                IF mode_ok(op, mode)
                  THEN [IdleThread EXCEPT !.pc = "wait", !.op = op, !.mode = mode]
                  ELSE [IdleThread EXCEPT !.op = op, !.mode = mode,
                                          !.raised = "ValueError"]]
  /\ tcalls' = tcalls + 1
  /\ UNCHANGED <<decVars, compVars, pumpVars, lock, span, obs, ckind, dictVars, fileVars>>

NextM == NextT \/ \E t \in Threads : T_CallMode(t)

SpecM == InitT /\ [][NextM]_vars

\* ------------------------------------------- threads sharing a ZstdDict

\* The compression levels the threads ask for, and the number of calls
\* they make together.
Levels == {1, 2}

MaxDictCalls == 3

\* A handle of the codec that is not NULL (0) and was never given before.
FreshHandle(created) == Len(created) + 1

cdict_cached_never(cdicts, level) == FALSE

\* level in self.__cdicts (line 267).
cdict_cached(cdicts, level) == level \in DOMAIN cdicts

\* self.__cdicts[level] = cdict (line 278).
cache_cdict(cdicts, level, cdict) ==
  [l \in DOMAIN cdicts \cup {level} |-> IF l = level THEN cdict ELSE cdicts[l]]

InitD ==
  /\ payloads = <<>>
  /\ stream = <<>>
  /\ dec = NewDecompressor(DECOMPRESSOR)
  /\ fed = 0
  /\ got = <<>>
  /\ raised = "none"
  /\ last = NoLast
  /\ base = 0
  /\ erred = FALSE
  /\ one = NoOne
  /\ limit = -1
  /\ offer = <<>>
  /\ CompIdle
  /\ PumpIdle
  /\ ThreadsIdle
  /\ DictIdle
  /\ FilesIdle

\* A thread calls _get_cdict(level) or _get_ddict() (lines 262, 283).
D_Call(t) ==
  /\ zt[t].pc = "idle"
  /\ zd.calls < MaxDictCalls
  /\ \E op \in {"cdict", "ddict"} :
       \E level \in IF op = "cdict" THEN Levels ELSE {0} :
         zt' = [zt EXCEPT ![t] = [IdleDictThread EXCEPT !.pc = "acquire",
                                                       !.op = op,
                                                       !.level = level]]
  /\ zd' = [zd EXCEPT !.calls = @ + 1]
  /\ UNCHANGED <<decVars, compVars, pumpVars, threadVars, fileVars>>

\* self.__lock.acquire() (lines 264, 285).
D_Acquire(t) ==
  /\ zt[t].pc = "acquire"
  /\ acquire_ok(zd.lock)
  /\ zd' = [zd EXCEPT !.lock = t]
  /\ zt' = [zt EXCEPT ![t].pc = "lookup"]
  /\ UNCHANGED <<decVars, compVars, pumpVars, threadVars, fileVars>>

\* The test for a cached handle (lines 267-268, 287).
D_Lookup(t) ==
  /\ zt[t].pc = "lookup"
  /\ zt' = [zt EXCEPT ![t] =
              IF zt[t].op = "cdict"
                THEN IF cdict_cached(zd.cdicts, zt[t].level)
                       THEN [@ EXCEPT !.pc = "release",
                                      !.ret = zd.cdicts[zt[t].level]]
                       ELSE [@ EXCEPT !.pc = "create"]
                ELSE IF zd.ddict = 0
                       THEN [@ EXCEPT !.pc = "create"]
                       ELSE [@ EXCEPT !.pc = "release", !.ret = zd.ddict]]
  /\ UNCHANGED <<zd, decVars, compVars, pumpVars, threadVars, fileVars>>

\* ZSTD_createCDict or ZSTD_createDDict, which returns a new handle or
\* NULL, and what follows it (lines 270-279, 289-295).
D_Create(t) ==
  /\ zt[t].pc = "create"
  /\ \E handle \in {0, FreshHandle(zd.created)} :
       /\ zd' = IF handle = 0
                  THEN IF zt[t].op = "ddict" THEN [zd EXCEPT !.ddict = handle]
                                            ELSE zd
                  ELSE LET made == Append(zd.created,
                                          [op |-> zt[t].op, level |-> zt[t].level,
                                           handle |-> handle])
                       IN IF zt[t].op = "cdict"
                            THEN [zd EXCEPT !.cdicts = cache_cdict(@, zt[t].level,
                                                                     handle),
                                            !.created = made]
                            ELSE [zd EXCEPT !.ddict = handle, !.created = made]
       /\ zt' = [zt EXCEPT ![t] = IF handle = 0
                                    THEN [@ EXCEPT !.pc = "release",
                                                   !.raised = "ZstdError"]
                                    ELSE [@ EXCEPT !.pc = "release",
                                                   !.ret = handle]]
  /\ UNCHANGED <<decVars, compVars, pumpVars, threadVars, fileVars>>

\* finally: self.__lock.release() (lines 280-281, 296-297), and the
\* return of the handle to the caller.
D_Release(t) ==
  /\ zt[t].pc = "release"
  /\ zd' = [zd EXCEPT !.lock = finally_release(@, zt[t].raised),
                      !.given = IF zt[t].raised = "none"
                                  THEN @ \cup {[t |-> t, op |-> zt[t].op,
                                               level |-> zt[t].level,
                                               handle |-> zt[t].ret]}
                                  ELSE @]
  /\ zt' = [zt EXCEPT ![t].pc = "idle"]
  /\ UNCHANGED <<decVars, compVars, pumpVars, threadVars, fileVars>>

NextD ==
  \E t \in Threads :
    D_Call(t) \/ D_Acquire(t) \/ D_Lookup(t) \/ D_Create(t) \/ D_Release(t)

SpecD == InitD /\ [][NextD]_vars

\* ------------------------------------------------------ _set_c_parameters

ZSTD_c_compressionLevel == 100

ZSTD_c_windowLog == 101

ZSTD_c_nbWorkers == 400

ZSTD_c_jobSize == 401

ZSTD_c_overlapLog == 402

\* The bounds of a 32-bit signed int, scaled down from -2^31 and 2^31 - 1.
INT32_MIN == -1000

INT32_MAX == 999

\* ZSTD_minCLevel(), scaled down.
min_level == -3

\* The largest window log and the largest worker count, job size and
\* overlap log of the codec, scaled down.
MaxParam == 2

\* The number of entries of an option dict.
MaxOptions == 2

\* _check_int32_value (lines 405-410).
check_int32_value(value) == INT32_MIN <= value /\ value <= INT32_MAX

\* clamp_compression_level (lines 413-418): a codec before v1.4.7 does not
\* clamp the lower bound itself.
clamp_compression_level(old_zstd, level) ==
  IF old_zstd /\ level < min_level THEN min_level ELSE level

\* ZSTD_CCtx_setParameter: 0, or an error code when the value is outside
\* the bounds of the key.  A build without multithreading support accepts
\* only 0 for nbWorkers, jobSize and overlapLog.
ZSTD_CCtx_setParameter(support_mt, old_zstd, key, value) ==
  IF key = ZSTD_c_compressionLevel
    THEN IF old_zstd /\ value < min_level THEN -1 ELSE 0
  ELSE IF key = ZSTD_c_windowLog
    THEN IF 0 <= value /\ value <= MaxParam THEN 0 ELSE -1
  ELSE IF key \in {ZSTD_c_nbWorkers, ZSTD_c_jobSize, ZSTD_c_overlapLog}
    THEN IF value = 0 \/ (support_mt /\ 0 <= value /\ value <= MaxParam)
           THEN 0 ELSE -1
  ELSE -1

\* A variant of single_threaded that changes nothing.
single_threaded_never(support_mt, key, value, use_multithread) ==
  [value |-> value, use_multithread |-> use_multithread, warn |-> FALSE]

\* "Zstd lib doesn't support MT compression" (lines 447-458): the value
\* given to the codec, the flag, and whether the warning is raised.
single_threaded(support_mt, key, value, use_multithread) ==
  IF ~support_mt
     /\ key \in {ZSTD_c_nbWorkers, ZSTD_c_jobSize, ZSTD_c_overlapLog}
     /\ value > 0
    THEN [value |-> 0,
          use_multithread |-> IF key = ZSTD_c_nbWorkers THEN FALSE
                              ELSE use_multithread,
          warn |-> key = ZSTD_c_nbWorkers]
    ELSE [value |-> value, use_multithread |-> use_multithread, warn |-> FALSE]

\* One pass of the loop over the option dict (lines 434-462), on the frame
\* p, for the entry (key, given).
set_entry(p, key, given) ==
  IF ~check_int32_value(key) \/ ~check_int32_value(given)
    THEN [p EXCEPT !.pc = "raised", !.raised = "ValueError",
                   !.posi = @ + 1, !.option = Drop(@, 1)]
    ELSE
      LET value1 == IF key = ZSTD_c_compressionLevel
                      THEN clamp_compression_level(p.old_zstd, given)
                    ELSE IF key = ZSTD_c_nbWorkers /\ given = 1 THEN 0
                    ELSE given
          level1 == IF key = ZSTD_c_compressionLevel THEN value1 ELSE p.level
          mt1    == IF key = ZSTD_c_nbWorkers /\ given > 1 THEN TRUE
                    ELSE p.use_multithread
          f      == single_threaded(p.support_mt, key, value1, mt1)
          failed == ZSTD_isError(ZSTD_CCtx_setParameter(p.support_mt, p.old_zstd,
                                                        key, f.value))
      IN [p EXCEPT !.posi = @ + 1,
                   !.option = Drop(@, 1),
                   !.level = level1,
                   !.use_multithread = f.use_multithread,
                   !.applied = Append(@, [key |-> key, given |-> given,
                                          value |-> f.value]),
                   !.warnings = IF f.warn THEN Append(@, p.posi + 1) ELSE @,
                   !.pc = IF failed THEN "raised" ELSE @,
                   !.raised = IF failed THEN "ZstdError" ELSE @]

\* The keys and the values of the entries, and the option dicts made of
\* them: the keys of a dict are distinct.
ParamKeys ==
  {ZSTD_c_compressionLevel, ZSTD_c_windowLog, ZSTD_c_nbWorkers, ZSTD_c_jobSize,
   ZSTD_c_overlapLog}

ParamValues == {-4, -1, 0, 1, 2, INT32_MAX + 1}

Options ==
  {o \in SeqsUpTo(ParamKeys \X ParamValues, MaxOptions) :
     \A i, j \in DOMAIN o : o[i][1] = o[j][1] => i = j}

InitO ==
  /\ payloads = <<>>
  /\ stream = <<>>
  /\ dec = NewDecompressor(DECOMPRESSOR)
  /\ fed = 0
  /\ got = <<>>
  /\ raised = "none"
  /\ last = NoLast
  /\ base = 0
  /\ erred = FALSE
  /\ one = NoOne
  /\ limit = -1
  /\ offer = <<>>
  /\ CompIdle
  /\ PumpIdle
  /\ ThreadsIdle
  /\ DictIdle
  /\ \E support_mt \in BOOLEAN, old_zstd \in BOOLEAN :
       \E level_or_option \in
            {[kind |-> "int", value |-> v, items |-> <<>>] : v \in ParamValues}
            \cup {[kind |-> "dict", value |-> 0, items |-> o] : o \in Options}
            \cup {[kind |-> "str", value |-> 0, items |-> <<>>]} :
         prm = NewParams(support_mt, old_zstd, level_or_option)
  /\ zf = NoFile
  /\ bc = NoBuf

\* The int form and the dispatch on the type of level_or_option (lines
\* 420-433, 466).
PS_Start ==
  /\ prm.pc = "start"
  /\ prm' =
       IF prm.level_or_option.kind = "int"
         THEN LET given == prm.level_or_option.value
                  level == clamp_compression_level(prm.old_zstd, given)
              IN IF ~check_int32_value(given)
                   THEN [prm EXCEPT !.pc = "raised", !.raised = "ValueError"]
                 ELSE IF ZSTD_isError(ZSTD_CCtx_setParameter(
                                        prm.support_mt, prm.old_zstd,
                                        ZSTD_c_compressionLevel, level))
                   THEN [prm EXCEPT !.pc = "raised", !.raised = "ZstdError",
                                    !.level = level,
                                    !.applied = <<[key |-> ZSTD_c_compressionLevel,
                                                   given |-> given, value |-> level]>>]
                 ELSE [prm EXCEPT !.pc = "returned", !.level = level,
                                  !.applied = <<[key |-> ZSTD_c_compressionLevel,
                                                 given |-> given, value |-> level]>>]
       ELSE IF prm.level_or_option.kind = "dict"
         THEN [prm EXCEPT !.pc = "loop", !.option = prm.level_or_option.items]
       ELSE [prm EXCEPT !.pc = "raised", !.raised = "TypeError"]
  /\ UNCHANGED <<decVars, compVars, pumpVars, concVars, zf, bc>>

\* One pass of the loop over the entries of the dict (lines 434-462).
PS_Entry ==
  /\ prm.pc = "loop"
  /\ prm.option # <<>>
  /\ prm' = set_entry(prm, prm.option[1][1], prm.option[1][2])
  /\ UNCHANGED <<decVars, compVars, pumpVars, concVars, zf, bc>>

\* The return after the last entry (line 464).
PS_Return ==
  /\ prm.pc = "loop"
  /\ prm.option = <<>>
  /\ prm' = [prm EXCEPT !.pc = "returned"]
  /\ UNCHANGED <<decVars, compVars, pumpVars, concVars, zf, bc>>

NextO == PS_Start \/ PS_Entry \/ PS_Return

SpecO == InitO /\ [][NextO]_vars

\* ---------------------------------------------------------------- ZstdFile

\* The number of calls made on a ZstdFile after __init__.
MaxFileOps == 4

\* The outcome of a call: what it raised and what it returned.
Outcome(z, op, exc, ret, wrote) ==
  [z EXCEPT !.ops = @ + 1,
            !.last = [op |-> op, raised |-> exc, ret |-> ret, wrote |-> wrote]]

\* The closed property (lines 1535-1538).
closed(self) == self.mode = "CLOSED"

\* _check_not_closed of _compression.BaseStream: what it raises.
check_not_closed(self) == IF closed(self) THEN "ValueError" ELSE "none"

\* A variant of close_finally that runs only when nothing was raised.
close_finally_on_success(self, exc) ==
  IF exc = "none"
    THEN [self EXCEPT !.fp = "none", !.closefp = FALSE, !.mode = "CLOSED"]
    ELSE self

\* The inner finally clause of close (lines 1530-1533).
close_finally(self, exc) ==
  [self EXCEPT !.fp = "none", !.closefp = FALSE, !.mode = "CLOSED"]

\* ZstdFile.__init__ (lines 1467-1509) in mode "r" or "w" or an invalid
\* one, on a path, a file object or something else; fail names the step
\* that raises: io.open or the creation of the reader.
ZstdFile_init(z, mode, target, option_ok, fail) ==
  LET made   == [z EXCEPT !.made = TRUE]
      opened == [made EXCEPT !.self.fp = "file",
                             !.self.closefp = (target = "path"),
                             !.self.mode = IF mode = "r" THEN "READ" ELSE "WRITE",
                             !.file.open = TRUE]
      comp0  == [made EXCEPT !.self.has_compressor = "set"]
      with   == IF mode = "w"
                  THEN [opened EXCEPT !.self.has_compressor = "set"]
                  ELSE opened
  IN IF mode \notin {"r", "w"} THEN Outcome(made, "init", "ValueError", "none", 0)
     ELSE IF ~option_ok THEN Outcome(made, "init", "TypeError", "none", 0)
     ELSE IF target = "path" /\ fail = "open"
       THEN Outcome(IF mode = "w" THEN comp0 ELSE made, "init", "OSError", "none", 0)
     ELSE IF target = "other"
       THEN Outcome(IF mode = "w" THEN comp0 ELSE made, "init", "TypeError", "none", 0)
     ELSE IF mode = "r" /\ fail = "reader"
       THEN Outcome(with, "init", "ZstdError", "none", 0)
     ELSE Outcome(IF mode = "r" THEN [with EXCEPT !.self.buffer = "reader"] ELSE with,
                  "init", "none", "none", 0)

\* ZstdFile.close (lines 1511-1533).  fail names the step of the try
\* clause that raises (the close of the reader, the flush of the
\* compressor, the write to the file), fp_fails is whether the close of
\* the file raises; f is what the flush returned.
ZstdFile_close(z, fail, fp_fails, f) ==
  IF z.self.mode = "CLOSED" THEN Outcome(z, "close", "none", "none", 0)
  ELSE
    LET tried ==
          IF z.self.mode = "READ" /\ z.self.buffer # "unset"
            THEN IF fail = "buffer"
                   THEN [z |-> z, exc |-> "OSError", wrote |-> 0]
                   ELSE [z |-> [z EXCEPT !.self.buffer = "none"],
                         exc |-> "none", wrote |-> 0]
          ELSE IF z.self.mode = "WRITE"
            THEN IF f.raised # "none"
                   THEN [z |-> [z EXCEPT !.self.compressor = f.self],
                         exc |-> f.raised, wrote |-> 0]
                 ELSE IF fail = "write"
                   THEN [z |-> [z EXCEPT !.self.compressor = f.self],
                         exc |-> "OSError", wrote |-> 0]
                 ELSE [z |-> [z EXCEPT !.self.compressor = f.self,
                                       !.self.has_compressor = "none",
                                       !.file.bytes = @ \o f.ret],
                       exc |-> "none", wrote |-> Len(f.ret)]
          ELSE [z |-> z, exc |-> "none", wrote |-> 0]
        exc2 == IF tried.z.self.closefp /\ fp_fails THEN "OSError" ELSE tried.exc
        shut == IF tried.z.self.closefp
                  THEN [tried.z EXCEPT !.file.closes = @ + 1,
                                       !.file.open = fp_fails]
                  ELSE tried.z
    IN Outcome([shut EXCEPT !.self = close_finally(@, exc2)],
               "close", exc2, "none", tried.wrote)

\* ZstdFile.write (lines 1606-1617); c is what compress(data) returned.
ZstdFile_write(z, data, fail, c) ==
  IF check_not_closed(z.self) # "none"
    THEN Outcome(z, "write", check_not_closed(z.self), "none", 0)
  ELSE IF z.self.mode # "WRITE"
    THEN Outcome(z, "write", "UnsupportedOperation", "none", 0)
  ELSE IF c.raised # "none"
    THEN Outcome([z EXCEPT !.self.compressor = c.self], "write", c.raised, "none", 0)
  ELSE IF fail = "write"
    THEN Outcome([z EXCEPT !.self.compressor = c.self], "write", "OSError", "none", 0)
  ELSE Outcome([z EXCEPT !.self.compressor = c.self,
                         !.self.pos = @ + Len(data),
                         !.file.bytes = @ \o c.ret],
               "write", "none", Len(data), Len(c.ret))

\* ZstdFile.read (lines 1578-1585), fileno, readable, writable and tell
\* (lines 1540-1557, 1636-1641).
ZstdFile_query(z, op) ==
  IF check_not_closed(z.self) # "none"
    THEN Outcome(z, op, check_not_closed(z.self), "none", 0)
  ELSE IF op = "read"
    THEN IF z.self.mode # "READ"
           THEN Outcome(z, op, "UnsupportedOperation", "none", 0)
           ELSE Outcome(z, op, "none", "bytes", 0)
  ELSE IF op = "readable" THEN Outcome(z, op, "none", z.self.mode = "READ", 0)
  ELSE IF op = "writable" THEN Outcome(z, op, "none", z.self.mode = "WRITE", 0)
  ELSE IF op = "fileno" THEN Outcome(z, op, "none", "fd", 0)
  ELSE Outcome(z, op, "none",
               IF z.self.mode = "READ" THEN "buffer.tell" ELSE z.self.pos, 0)

InitZ ==
  /\ payloads = <<>>
  /\ stream = <<>>
  /\ dec = NewDecompressor(DECOMPRESSOR)
  /\ fed = 0
  /\ got = <<>>
  /\ raised = "none"
  /\ last = NoLast
  /\ base = 0
  /\ erred = FALSE
  /\ one = NoOne
  /\ limit = -1
  /\ offer = <<>>
  /\ CompIdle
  /\ PumpIdle
  /\ ThreadsIdle
  /\ DictIdle
  /\ prm = [NewParams(TRUE, FALSE, [kind |-> "int", value |-> 0, items |-> <<>>])
             EXCEPT !.pc = "idle"]
  /\ bc = NoBuf
  /\ \E faulty \in BOOLEAN : zf = [NoFile EXCEPT !.faulty = faulty]

\* The steps that may raise when the file and the codec may fail.
Failures(z, steps) == IF z.faulty THEN {"none"} \cup steps ELSE {"none"}

ZF_Init ==
  /\ ~zf.made
  /\ \E mode \in {"r", "w", "z"}, target \in {"path", "object", "other"},
        option_ok \in BOOLEAN, fail \in Failures(zf, {"open", "reader"}) :
       zf' = [ZstdFile_init(zf, mode, target, option_ok, fail) EXCEPT !.ops = 0]
  /\ UNCHANGED <<decVars, compVars, pumpVars, concVars, prm, bc>>

ZF_Close ==
  /\ zf.made
  /\ zf.ops < MaxFileOps
  /\ \E fail \in Failures(zf, {"buffer", "flush", "write"}),
        fp_fails \in (IF zf.faulty THEN BOOLEAN ELSE {FALSE}) :
       \E f \in {IF zf.self.mode = "WRITE"
                   THEN ZstdCompressor_flush(IF fail = "flush"
                                               THEN Faulty(zf.self.compressor)
                                               ELSE zf.self.compressor,
                                             FLUSH_FRAME)
                   ELSE [self |-> zf.self.compressor, ret |-> <<>>,
                         raised |-> "none"]} :
         zf' = [ZstdFile_close(zf, fail, fp_fails, f) EXCEPT !.nclose = @ + 1]
  /\ UNCHANGED <<decVars, compVars, pumpVars, concVars, prm, bc>>

ZF_Write ==
  /\ zf.made
  /\ zf.ops < MaxFileOps
  /\ \E data \in {<<1>>, <<1, 2>>}, fail \in Failures(zf, {"compress", "write"}) :
       \E c \in {IF ~closed(zf.self) /\ zf.self.mode = "WRITE"
                   THEN ZstdCompressor_compress(IF fail = "compress"
                                                  THEN Faulty(zf.self.compressor)
                                                  ELSE zf.self.compressor,
                                                data, CONTINUE)
                   ELSE [self |-> zf.self.compressor, ret |-> <<>>,
                         raised |-> "none"]} :
         zf' = ZstdFile_write(zf, data, fail, c)
  /\ UNCHANGED <<decVars, compVars, pumpVars, concVars, prm, bc>>

ZF_Query ==
  /\ zf.made
  /\ zf.ops < MaxFileOps
  /\ \E op \in {"read", "readable", "writable", "fileno", "tell"} :
       zf' = ZstdFile_query(zf, op)
  /\ UNCHANGED <<decVars, compVars, pumpVars, concVars, prm, bc>>

NextZ == ZF_Init \/ ZF_Close \/ ZF_Write \/ ZF_Query

SpecZ == InitZ /\ [][NextZ]_vars

\* ------------------------------------- a call taken one loop pass at a time

\* The number of calls taken pass by pass.
MaxBufCalls == 2

\* One pass of the loop of _compress_impl (lines 546-558) after its codec
\* call returned r: the loop state after the pass, and whether the loop
\* goes on.
compress_once(st, data, end_directive, r) ==
  LET st1 == [st EXCEPT !.cc = r.cc, !.ipos = @ + r.n, !.ob = writeOut(@, r.out)]
  IN IF ZSTD_isError(r.ret) THEN [st |-> [st EXCEPT !.raised = "ZstdError"], go |-> FALSE]
     ELSE IF r.ret = 0 THEN [st |-> st1, go |-> FALSE]
     ELSE LET ob2 == grow(st1.ob)
          IN IF ob2.ok THEN [st |-> [st1 EXCEPT !.ob = ob2], go |-> TRUE]
             ELSE [st |-> [st1 EXCEPT !.ob = ob2, !.raised = "AssertionError"],
                   go |-> FALSE]

\* A variant of mt_once that returns when the output block is full.
mt_once_return_when_full(st, data, r) ==
  LET st1 == [st EXCEPT !.cc = r.cc, !.ipos = @ + r.n, !.ob = writeOut(@, r.out),
                        !.zstd_ret = r.ret]
  IN IF ~(st1.ob.pos = st1.ob.size \/ st1.ipos = Len(data) \/ ZSTD_isError(r.ret))
       THEN [st |-> st1, go |-> TRUE]
     ELSE IF ZSTD_isError(r.ret)
       THEN [st |-> [st1 EXCEPT !.raised = "ZstdError"], go |-> FALSE]
     ELSE [st |-> st1, go |-> FALSE]

\* One codec call of _compress_mt_continue_impl (lines 576-598) and what
\* follows it: the inner loop goes on, or it is left and the outer loop
\* raises, returns, or grows the buffer and goes on.
mt_once(st, data, r) ==
  LET st1 == [st EXCEPT !.cc = r.cc, !.ipos = @ + r.n, !.ob = writeOut(@, r.out),
                        !.zstd_ret = r.ret]
  IN IF ~(st1.ob.pos = st1.ob.size \/ st1.ipos = Len(data) \/ ZSTD_isError(r.ret))
       THEN [st |-> st1, go |-> TRUE]
     ELSE IF ZSTD_isError(r.ret)
       THEN [st |-> [st1 EXCEPT !.raised = "ZstdError"], go |-> FALSE]
     ELSE IF st1.ipos = Len(data) THEN [st |-> st1, go |-> FALSE]
     ELSE LET ob2 == grow(st1.ob)
          IN IF ob2.ok THEN [st |-> [st1 EXCEPT !.ob = ob2], go |-> TRUE]
             ELSE [st |-> [st1 EXCEPT !.ob = ob2, !.raised = "AssertionError"],
                   go |-> FALSE]

\* The behaviour works on a decompressor (ckind is "none") or on a
\* compressor of class ckind.  The stream may have one damaged byte.
InitB ==
  /\ ckind \in {"none", "ZstdCompressor", "RichMemZstdCompressor"}
  /\ IF ckind = "none"
       THEN /\ payloads \in PayloadLists
            /\ \E known \in BOOLEAN :
                 LET whole == Flatten(FramesOf(payloads, known))
                 IN \/ stream = whole
                    \/ /\ Len(payloads) = 1
                       /\ \E i \in 1..Len(whole) : stream = Damaged(whole, i)
            /\ \E type \in {DECOMPRESSOR, ENDLESS_DECOMPRESSOR} :
                 dec = NewDecompressor(type)
            /\ comp = NewCompressor(FALSE)
            /\ src = <<>>
       ELSE /\ payloads = <<>>
            /\ stream = <<>>
            /\ dec = NewDecompressor(DECOMPRESSOR)
            /\ \E use_multithreaded \in BOOLEAN :
                 /\ (ckind = "RichMemZstdCompressor") => ~use_multithreaded
                 /\ comp = NewCompressor(use_multithreaded)
            /\ src \in {Run(0, n) : n \in 0..(MaxPayload + 1)}
  /\ fed = 0
  /\ got = <<>>
  /\ raised = "none"
  /\ last = NoLast
  /\ base = 0
  /\ erred = FALSE
  /\ one = NoOne
  /\ limit = -1
  /\ offer = <<>>
  /\ csent = 0
  /\ cout = <<>>
  /\ pat = "start"
  /\ clast = NoCall
  /\ ncalls = 0
  /\ PumpIdle
  /\ lock = [dec |-> 0, comp |-> 0]
  /\ th = [t \in Threads |-> IdleThread]
  /\ span = [entry |-> Flags(dec), exit |-> Flags(dec), after |-> dec]
  /\ obs = [made |-> FALSE, inside |-> FALSE, flags |-> Flags(dec),
            entry |-> Flags(dec), exit |-> Flags(dec)]
  /\ tcalls = 0
  /\ DictIdle
  /\ prm = [NewParams(TRUE, FALSE, [kind |-> "int", value |-> 0, items |-> <<>>])
             EXCEPT !.pc = "idle"]
  /\ zf = NoFile
  /\ bc = NoBuf

bRest == <<payloads, stream, raised, last, base, erred, one, limit, offer,
           src, pat, clast, ncalls, pumpVars, concVars, prm, zf>>

\* dec.decompress(chunk, max_length) begins: the merge of the carry-over
\* with data, and the start of _decompress_impl with its output buffer.
B_Decompress ==
  /\ ckind = "none"
  /\ bc.pc = "idle"
  /\ bc.calls < MaxBufCalls
  /\ ~(dec.type = DECOMPRESSOR /\ dec.eof)
  /\ \E n \in ChunkLens, max_length \in MaxLengths :
       \E p \in {prepare_input(dec, NextChunk(n))},
          size \in {fast_path_size(dec, NextChunk(n), max_length)} :
         \E q \in {impl_start(dec.type, p.self, p.inp, max_length, size)} :
           /\ p.ok
           /\ dec' = p.self
           /\ fed' = fed + n
           /\ bc' = [bc EXCEPT
                       !.pc = IF q.go THEN "codec" ELSE "end",
                       !.kind = "decompress", !.st = q.st, !.ob = q.st.ob,
                       !.inp = p.inp, !.use_input_buffer = p.use_input_buffer,
                       !.max_length = max_length, !.entered = q.go,
                       !.with_size = q.go /\ size \notin {ZSTD_CONTENTSIZE_UNKNOWN,
                                                          ZSTD_CONTENTSIZE_ERROR},
                       !.init_size = IF q.go THEN q.st.ob.size ELSE 0,
                       !.grows = 0, !.frames = 0, !.raised = "none",
                       !.calls = @ + 1]
  /\ UNCHANGED <<got, comp, csent, cout, bRest>>

\* comp.compress(chunk, mode), comp.flush(mode) or the compress(data) of a
\* RichMemZstdCompressor begins, during which the codec may fail: the
\* start of _compress_impl or of _compress_mt_continue_impl with its
\* output buffer.
B_Compress ==
  /\ ckind # "none"
  /\ bc.pc = "idle"
  /\ bc.calls < MaxBufCalls
  /\ \E n \in 0..(Len(src) - csent), mode \in {CONTINUE, FLUSH_BLOCK, FLUSH_FRAME},
        fault \in BOOLEAN :
       LET data == SubSeq(src, csent + 1, csent + n)
           rich == ckind = "RichMemZstdCompressor"
           mt   == comp.use_multithreaded /\ mode = CONTINUE
           c    == IF fault THEN Faulty(comp) ELSE comp
           ob0  == IF rich THEN initWithSize(ZSTD_compressBound(Len(data)))
                   ELSE initAndGrow(-1)
       IN /\ rich => mode = FLUSH_FRAME
          /\ csent' = csent + n
          /\ bc' = [bc EXCEPT
                      !.pc = "codec",
                      !.kind = IF rich THEN "richmem" ELSE IF mt THEN "mt"
                               ELSE "compress",
                      !.st = [cc |-> c.cctx, ipos |-> 0, raised |-> "none",
                              zstd_ret |-> 0, ob |-> ob0],
                      !.cc0 = c.cctx,
                      !.ob = ob0, !.inp = data, !.use_input_buffer = FALSE,
                      !.max_length = -1, !.mode = mode, !.entered = TRUE,
                      !.with_size = rich, !.init_size = ob0.size,
                      !.grows = 0, !.frames = 0, !.raised = "none",
                      !.calls = @ + 1]
  /\ UNCHANGED <<dec, fed, got, comp, cout, bRest>>

\* The codec call of a pass: the codec writes at out.dst + out.pos.
B_Codec ==
  /\ bc.pc = "codec"
  /\ \E r \in {IF bc.kind = "decompress"
                 THEN ZSTD_decompressStream(bc.st.dc, Drop(bc.inp, bc.st.ipos),
                                            bc.ob.size - bc.ob.pos)
                 ELSE ZSTD_compressStream2(bc.st.cc, Drop(bc.inp, bc.st.ipos),
                                           bc.ob.size - bc.ob.pos,
                                           IF bc.kind = "mt" THEN CONTINUE
                                           ELSE bc.mode)} :
       bc' = [bc EXCEPT !.pc = "tail", !.r = r,
                        !.ob = IF ZSTD_isError(r.ret) THEN @ ELSE writeOut(@, r.out)]
  /\ UNCHANGED <<dec, fed, got, comp, csent, cout, bRest>>

\* The rest of the pass: the flags, the tests that leave the loop, and
\* reachedMaxLength() and grow().
B_Tail ==
  /\ bc.pc = "tail"
  /\ \E q \in {IF bc.kind = "decompress"
                 THEN pass_once(dec.type, bc.st, bc.inp, bc.r)
               ELSE IF bc.kind = "mt" THEN mt_once(bc.st, bc.inp, bc.r)
               ELSE compress_once(bc.st, bc.inp, bc.mode, bc.r)} :
       /\ bc' = [bc EXCEPT
                   !.pc = IF q.go THEN "codec" ELSE "end",
                   !.st = q.st, !.ob = q.st.ob,
                   !.grows = IF Len(q.st.ob.list) > Len(bc.ob.list) \/ ~q.st.ob.ok
                               THEN @ + 1 ELSE @,
                   !.frames = IF bc.kind = "decompress" /\ bc.r.ret = 0
                                THEN @ + 1 ELSE @,
                   !.raised = q.st.raised]
       /\ dec' = IF bc.kind = "decompress"
                   THEN [dec EXCEPT !.dctx = q.st.dc, !.eof = q.st.eof,
                                    !.at_frame_edge = q.st.afe]
                   ELSE dec
  /\ UNCHANGED <<fed, got, comp, csent, cout, bRest>>

\* The bytes written to the output buffer ob.
Produced(ob) == ob.allocated - (ob.size - ob.pos)

\* The end of the call: finish() and the bookkeeping of the caller of the
\* loop, or its except clause.
B_End ==
  /\ bc.pc = "end"
  /\ IF bc.kind = "decompress"
       THEN /\ IF bc.raised = "none"
                 THEN \E d \in {IF bc.entered THEN decompress_return(bc.st)
                                  ELSE bc.st @@ [ret |-> <<>>, called |-> FALSE]} :
                        /\ dec' = dead_cells(
                                    after_decompress(dec,
                                      [self |-> dec,
                                       use_input_buffer |-> bc.use_input_buffer,
                                       inp |-> bc.inp],
                                      d, bc.max_length))
                        /\ got' = got \o d.ret
                 ELSE /\ dec' = dead_cells(reset_on_error(dec))
                      /\ got' = got
            /\ UNCHANGED <<comp, cout>>
       ELSE /\ \E r \in {IF bc.kind = "richmem"
                           THEN IF bc.raised = "none"
                                  THEN [self |-> [comp EXCEPT !.cctx = bc.st.cc],
                                        ret |-> finish(bc.st.ob)]
                                  ELSE [self |-> [comp EXCEPT
                                                    !.cctx = ZSTD_CCtx_reset(bc.st.cc)],
                                        ret |-> <<>>]
                           ELSE compress_locked(comp, compress_return(bc.st), bc.mode)} :
                 /\ comp' = r.self
                 /\ cout' = cout \o r.ret
            /\ UNCHANGED <<dec, got>>
  /\ bc' = [bc EXCEPT
              !.pc = "idle",
              !.fin = IF bc.raised = "none" /\ bc.entered
                        THEN [ran |-> TRUE, kind |-> bc.kind, with_size |-> bc.with_size,
                              init_size |-> bc.init_size,
                              blocks |-> Len(bc.ob.list), grows |-> bc.grows,
                              frames |-> bc.frames,
                              consumed |-> bc.st.ipos = Len(bc.inp),
                              zstd_ret |-> bc.st.zstd_ret,
                              produced |-> Produced(bc.ob)]
                        ELSE [@ EXCEPT !.ran = FALSE]]
  /\ UNCHANGED <<fed, csent, bRest>>

NextB == B_Decompress \/ B_Compress \/ B_Codec \/ B_Tail \/ B_End

SpecB == InitB /\ [][NextB]_vars

\* ------------------------------------------------------------- properties

\* What one decompress call on a fresh endless decompressor returns.
DecompressWhole(type, data) == stream_decompress(NewDecompressor(type), data, -1)

\* The bytes of stream not yet passed to dec.
Rest == SubSeq(stream, fed + 1, Len(stream))

\* dec can still be called without the end-of-frame error.
Callable == ~(dec.type = DECOMPRESSOR /\ dec.eof)

\* The call that passes all that is left, unbounded.
FinalCall == stream_decompress(dec, Rest, -1)

\* C1: round trip.  When the only call on a fresh ZstdCompressor was
\* compress(b, FLUSH_FRAME), one unbounded EndlessZstdDecompressor.decompress
\* call on its output returns b and raises nothing.
C1_RoundTrip ==
  pat = "oneshot" =>
    LET r == DecompressWhole(ENDLESS_DECOMPRESSOR, cout)
    IN r.raised = "none" /\ r.ret = Take(src, csent)

C1_Witness == pat = "oneshot" /\ csent = MaxPayload /\ Len(cout) > BUFFER_BLOCK_SIZE[1]

\* C2: chunked-input independence.  Whatever chunks (and max_length values)
\* the stream was passed in so far without an error, passing the rest gives
\* in total exactly what one call on a fresh decompressor returns for the
\* whole stream; and once the whole stream is passed and the decompressor
\* asks for input, all of it has already been returned.
C2_ChunkIndependence ==
  ~erred =>
    LET whole == DecompressWhole(dec.type, stream)
    IN /\ whole.raised = "none"
       /\ IF Callable
            THEN FinalCall.raised = "none" /\ got \o FinalCall.ret = whole.ret
            ELSE got = whole.ret
       /\ (fed = Len(stream) /\ dec.needs_input) => got = whole.ret

C2_Witness ==
  /\ ~erred /\ fed > 0 /\ fed < Len(stream) /\ Len(got) > 0
  /\ dec.in_begin < dec.in_end
  /\ Len(FinalCall.ret) > 0

\* C3: bounded output.  From every state, every decompress(data, N) call
\* with N >= 0 returns at most N bytes, and its output buffer never holds
\* more than N bytes of blocks (allocated only grows during a call).
C3_BoundedOutput ==
  \A n \in ChunkLens, N \in 0..MaxOut :
    LET r == stream_decompress(dec, NextChunk(n), N)
    IN Len(r.ret) <= N /\ r.ob.allocated <= N /\ r.ob.allocated = SumLen(r.ob.list)

C3_Witness ==
  \E n \in ChunkLens, N \in 1..MaxOut :
    LET r == stream_decompress(dec, NextChunk(n), N)
    IN /\ r.raised = "none" /\ Len(r.ret) = N /\ Len(r.ob.list) > 1
       /\ dec.in_begin < dec.in_end
       /\ ~r.self.needs_input

\* C5: multi-frame, endless.  An EndlessZstdDecompressor passed
\* frame(a) + frame(b) in any chunks returns a + b in total and ends with
\* at_frame_edge true.
C5_EndlessTwoFrames ==
  (dec.type = ENDLESS_DECOMPRESSOR /\ Len(payloads) = 2 /\ ~erred) =>
    /\ FinalCall.raised = "none"
    /\ got \o FinalCall.ret = payloads[1] \o payloads[2]
    /\ FinalCall.self.at_frame_edge
    /\ (fed = Len(stream) /\ dec.needs_input) =>
          (got = payloads[1] \o payloads[2] /\ dec.at_frame_edge)

C5_Witness ==
  /\ dec.type = ENDLESS_DECOMPRESSOR /\ Len(payloads) = 2 /\ ~erred
  /\ fed = Len(stream) /\ dec.needs_input /\ dec.at_frame_edge
  /\ Len(payloads[1]) > 0 /\ Len(payloads[2]) > 0
  /\ got = payloads[1] \o payloads[2]

FirstFrameLen == Len(stream) - Len(Frame(payloads[Len(payloads)], TRUE))

\* C6: multi-frame, single-frame.  A ZstdDecompressor passed
\* frame(a) + frame(b) returns only a; once the codec has reported the first
\* frame complete eof is true, the codec has consumed nothing of frame(b),
\* and unused_data is what was passed of frame(b); passed whole in one call
\* that is frame(b).
C6_SingleTwoFrames ==
  (dec.type = DECOMPRESSOR /\ Len(payloads) = 2 /\ ~erred) =>
    /\ dec.eof =>
         /\ got = payloads[1]
         /\ fed >= FirstFrameLen
         /\ dec.in_end - dec.in_begin = fed - FirstFrameLen
         /\ unused_data(dec).ret = SubSeq(stream, FirstFrameLen + 1, fed)
    /\ ~dec.eof =>
         /\ FinalCall.raised = "none"
         /\ FinalCall.self.eof
         /\ got \o FinalCall.ret = payloads[1]
         /\ unused_data(FinalCall.self).ret = Frame(payloads[2], stream[2] # FcsUnknown)

C6_Witness ==
  /\ dec.type = DECOMPRESSOR /\ Len(payloads) = 2 /\ ~erred
  /\ dec.eof /\ fed = Len(stream) /\ Len(payloads[1]) > 0
  /\ dec.unused_data = Frame(payloads[2], TRUE)

\* C7: single-frame stop is permanent.  Once eof is true it remains true
\* over every later call.
C7_EofPermanent ==
  [][(dec.type = DECOMPRESSOR /\ dec.eof) => dec'.eof]_vars

\* The positions of stream at which a frame ends.
FrameEdges == IF Len(payloads) = 2 THEN {0, FirstFrameLen, Len(stream)}
              ELSE {0, Len(stream)}

\* The payloads of the frames that lie whole in the first n bytes of stream.
PayloadBefore(n) ==
  IF n = Len(stream) THEN Flatten(payloads)
  ELSE IF Len(payloads) = 2 /\ n >= FirstFrameLen THEN payloads[1]
  ELSE <<>>

\* C8: truncation detection, one-shot.  decompress(data) on a prefix of the
\* stream raises ZstdError exactly when the prefix ends inside a frame, and
\* otherwise returns the payloads of its frames (b'' for b''); a
\* ZstdDecompressor that was passed only a part of its first frame has eof
\* false.
C8_Truncation ==
  /\ one.n >= 0 =>
       /\ one.raised = (IF one.n \in FrameEdges THEN "none" ELSE "ZstdError")
       /\ one.raised = "none" => one.ret = PayloadBefore(one.n)
  /\ (dec.type = DECOMPRESSOR /\ fed < (IF Len(payloads) = 2 THEN FirstFrameLen
                                         ELSE Len(stream)))
       => (~dec.eof /\ dec.unused_data = <<-1>>)

C8_Witness ==
  /\ one.raised = "ZstdError" /\ Len(one.ret) > 0
  /\ Len(payloads) = 2 /\ one.n > FirstFrameLen

\* C10: streaming equivalence.  After compress(chunk, CONTINUE) for the
\* chunks of b in order and then flush(FLUSH_FRAME), the concatenated output
\* decompresses to b, as the output of the one-shot compress(b) does.
C10_StreamingEquivalence ==
  pat = "flushed" =>
    LET b == Take(src, csent)
        r == decompress(cout)
        o == decompress(compress(b).ret)
    IN r.raised = "none" /\ r.ret = b /\ o.raised = "none" /\ o.ret = r.ret

C10_Witness ==
  /\ pat = "flushed" /\ ncalls = MaxCalls /\ csent = MaxPayload
  /\ cout # compress(src).ret

\* The payload the honouring caller is to receive: the first frame's for a
\* ZstdDecompressor, all frames' for an EndlessZstdDecompressor.
Payload == IF dec.type = DECOMPRESSOR THEN payloads[1] ELSE Flatten(payloads)

\* C4: bounded-output progress.  A caller that passes max_length N >= 1,
\* the next chunk only when needs_input is true and b'' otherwise,
\* eventually has received the whole payload, and no call raises.
C4_Progress == <>(got = Payload /\ ~erred)

C4_Witness ==
  /\ limit >= 1 /\ got = Payload /\ ~erred /\ Len(got) > limit
  /\ Len(payloads) = 2 /\ dec.type = ENDLESS_DECOMPRESSOR /\ dec.at_frame_edge

\* C9: truncation detection in decompress_stream.  When the source has
\* reported the end of the input, the function raises ZstdError if
\* at_frame_edge is false and otherwise returns (total_input_size,
\* total_output_size); at_frame_edge is then true exactly when the bytes
\* read end at a frame end, the totals are the bytes read and the payload
\* bytes of the frames read, and a source that is empty from the start
\* gives (0, 0).
C9_PumpTruncation ==
  /\ (ds.pc = "check" /\ ds.read_bytes = 0) =>
       (ds.at_frame_edge <=> fed \in FrameEdges)
  /\ ds.pc = "returned" =>
       /\ ds.read_bytes = 0 /\ ds.at_frame_edge /\ fed \in FrameEdges
       /\ ds.result = <<fed, Len(PayloadBefore(fed))>>
       /\ ds.has_output => got = PayloadBefore(fed)
  /\ (ds.pc = "raised" /\ ds.exc = "ZstdError") =>
       ds.read_bytes = 0 /\ ~ds.at_frame_edge /\ fed \notin FrameEdges
  /\ (ds.pc \in {"returned", "raised"} /\ ds.read_bytes = 0 /\ fed = 0) =>
       ds.pc = "returned" /\ ds.result = <<0, 0>>

C9_Witness ==
  /\ ds.pc = "raised" /\ ds.exc = "ZstdError" /\ ds.read_bytes = 0
  /\ Len(payloads) = 2 /\ fed > FirstFrameLen /\ ds.total_output_size > Len(payloads[1])

\* C11: at_frame_edge of an EndlessZstdDecompressor.  Between calls it is
\* true only if no unconsumed input is carried over and the codec stands at
\* a frame start; after every call it is true only if the carry-over is
\* empty and the last codec step of the call returned 0, or the call made
\* no codec step and it was true before, or the call raised and was reset.
C11_FrameEdgeOnlyAtBoundary ==
  dec.type = ENDLESS_DECOMPRESSOR =>
    /\ dec.at_frame_edge => (dec.in_begin = dec.in_end /\ dec.dctx = NewDCtx)
    /\ \A n \in ChunkLens, N \in MaxLengths :
         LET r == stream_decompress(dec, NextChunk(n), N)
         IN r.self.at_frame_edge =>
              /\ r.self.in_begin = r.self.in_end
              /\ \/ r.raised # "none"
                 \/ r.called /\ r.zstd_ret = 0
                 \/ ~r.called /\ dec.at_frame_edge

\* A call has ended a frame with input left over: the codec stands at a
\* frame start, the carry-over is not empty and at_frame_edge is false.
C11_Witness ==
  /\ dec.type = ENDLESS_DECOMPRESSOR
  /\ fed > 0 /\ ~erred
  /\ dec.dctx = NewDCtx
  /\ dec.in_begin < dec.in_end
  /\ ~dec.at_frame_edge

\* The most recent decompress call on dec returned normally and consumed
\* the whole input it was given (carry-over and data).
ConsumedAll == last.made /\ raised = "none" /\ last.consumed

\* The terminal boundary of dec: eof, or at_frame_edge for the endless one.
Terminal == IF dec.type = DECOMPRESSOR THEN dec.eof ELSE dec.at_frame_edge

\* C12 as stated: after a successful call that consumed its whole input,
\* needs_input is false exactly when the output length equals max_length
\* and no terminal boundary was reached.
C12_NeedsInputAsStated ==
  ConsumedAll => (dec.needs_input <=> ~(last.retlen = last.max_length /\ ~Terminal))

\* C12: after a successful call that consumed its whole input, needs_input
\* of a ZstdDecompressor is false exactly when the output length equals
\* max_length or eof is set; needs_input of an EndlessZstdDecompressor is
\* false exactly when the output length equals max_length and
\* at_frame_edge is not set.
C12_NeedsInput ==
  ConsumedAll =>
    (dec.needs_input <=>
       IF dec.type = DECOMPRESSOR
         THEN ~(last.retlen = last.max_length \/ dec.eof)
         ELSE ~(last.retlen = last.max_length /\ ~dec.at_frame_edge))

\* A ZstdDecompressor call consumed all its input, reached eof with the
\* output shorter than max_length, and needs_input is false.
C12_Witness ==
  /\ dec.type = DECOMPRESSOR
  /\ ConsumedAll /\ last.called
  /\ dec.eof
  /\ last.retlen # last.max_length
  /\ ~dec.needs_input

\* What a caller can see of a decompress call with outcome r.
Seen(r) ==
  [ret |-> r.ret, raised |-> r.raised, needs_input |-> r.self.needs_input,
   eof |-> r.self.eof, at_frame_edge |-> r.self.at_frame_edge,
   carried |-> SubSeq(r.self.input_buffer, r.self.in_begin + 1, r.self.in_end),
   dctx |-> r.self.dctx]

\* C13: after a decompress call that raised, the carry-over is empty
\* (in_begin = in_end = 0), needs_input is true, eof is false (single
\* frame) or at_frame_edge is true (endless), the codec session is reset,
\* and any next decompress call behaves as on a new instance.
C13_ResetOnError ==
  (last.made /\ raised # "none") =>
    /\ dec.in_begin = 0 /\ dec.in_end = 0
    /\ dec.needs_input
    /\ IF dec.type = DECOMPRESSOR THEN ~dec.eof ELSE dec.at_frame_edge
    /\ dec.dctx = NewDCtx
    /\ \A n \in ChunkLens, N \in MaxLengths :
         Seen(stream_decompress(dec, NextChunk(n), N))
           = Seen(stream_decompress(NewDecompressor(dec.type), NextChunk(n), N))

\* A call met damaged data after earlier calls had returned output, and
\* raised ZstdError.
C13_Witness ==
  /\ last.made /\ raised = "ZstdError"
  /\ got # <<>>
  /\ fed < Len(stream)

\* C14: last_mode of a ZstdCompressor is FLUSH_FRAME before any call, the
\* mode of the most recent call if that call returned, and FLUSH_FRAME if
\* that call failed in the codec; after such a failure the codec session
\* is reset, and any next call returns what it returns on a new compressor.
C14_LastMode ==
  /\ ~clast.made => comp.last_mode = FLUSH_FRAME
  /\ (clast.made /\ clast.raised = "none") => comp.last_mode = clast.mode
  /\ (clast.made /\ clast.raised = "ZstdError") =>
       /\ comp.last_mode = FLUSH_FRAME
       /\ comp.cctx = NewCCtx
       /\ \A n \in 0..(Len(src) - csent), mode \in {CONTINUE, FLUSH_BLOCK, FLUSH_FRAME} :
            LET data == SubSeq(src, csent + 1, csent + n)
            IN ZstdCompressor_compress(comp, data, mode).ret
                 = ZstdCompressor_compress(NewCompressor(comp.use_multithreaded),
                                           data, mode).ret

\* A call failed in the codec in the middle of a frame, after earlier
\* calls had returned output, and with a mode other than FLUSH_FRAME.
C14_Witness ==
  /\ clast.made /\ clast.raised = "ZstdError"
  /\ clast.mode # FLUSH_FRAME
  /\ cout # <<>>
  /\ comp.last_mode = FLUSH_FRAME

\* The position in the stream of the end of the first frame of dec's
\* codec session, 0 if the stream holds no such end.
SessionFrameEnd ==
  LET ends == { i \in (base + 1)..Len(stream) : stream[i] = End }
  IN IF ends = {} THEN 0 ELSE CHOOSE i \in ends : \A j \in ends : i <= j

\* C19: a read of unused_data of a ZstdDecompressor returns the empty
\* bytes when eof is false, and when eof is true the bytes passed to
\* decompress after the end of the frame that set eof.
C19_UnusedData ==
  dec.type = DECOMPRESSOR =>
    unused_data(dec).ret = IF dec.eof THEN SubSeq(stream, SessionFrameEnd + 1, fed)
                           ELSE <<>>

\* C15: calls on one instance are serialized.  At most one thread is
\* between the acquire and the release of an instance's lock, and a
\* decompress call taken one step at a time, with other threads running,
\* leaves the instance as the same call taken alone leaves it.
C15_Serialized ==
  /\ \A o \in {"dec", "comp"} :
       Cardinality({ t \in Threads : th[t].pc \in Inside /\ Obj(th[t].op) = o }) <= 1
  /\ \A t \in Threads :
       (th[t].pc = "release" /\ Obj(th[t].op) = "dec") => dec = span.after

\* A thread waits for the lock of dec while the other is in the loop of
\* its decompress call.
C15_Witness ==
  \E t, u \in Threads :
    /\ th[t].pc = "wait" /\ th[t].op = "decompress"
    /\ th[u].pc = "loop"
    /\ th[u].st.ipos > 0

\* C16: the lock is released on every exit path.  A thread outside a call
\* holds no lock, and when no thread is inside a call every lock is free.
C16_LockReleased ==
  /\ \A t \in Threads :
       th[t].pc \in {"idle", "wait"} => (lock.dec # t /\ lock.comp # t)
  /\ \A o \in {"dec", "comp"} :
       (\A t \in Threads : ~(th[t].pc \in Inside /\ Obj(th[t].op) = o)) => lock[o] = 0

\* A call has raised and returned, and the other thread has then acquired
\* the lock of the same instance.
C16_Witness ==
  \E t, u \in Threads :
    /\ th[t].pc = "idle" /\ th[t].raised # "none"
    /\ th[u].pc \in Inside /\ Obj(th[u].op) = Obj(th[t].op)
    /\ lock[Obj(th[u].op)] = u

\* C17: a read of needs_input, eof or at_frame_edge made while a
\* decompress call is inside the lock returns the value the flag had when
\* the call began or the value it has when the call ends.
C17_NoIntermediateRead ==
  (obs.made /\ obs.inside) =>
    /\ obs.flags.needs_input \in {obs.entry.needs_input, obs.exit.needs_input}
    /\ obs.flags.eof \in {obs.entry.eof, obs.exit.eof}
    /\ obs.flags.at_frame_edge \in {obs.entry.at_frame_edge, obs.exit.at_frame_edge}

\* The context of the pump frame d is freed exactly once when the function
\* has been left after creating it, is live and never freed while the
\* function runs past its creation, and was never freed otherwise.
FreedOnce(d) ==
  /\ d.pc \in {"returned", "raised"} =>
       IF d.ctx = "freed" THEN d.frees = 1 ELSE d.ctx \in {"none", "null"} /\ d.frees = 0
  /\ d.pc \in {"read", "cycle", "write", "check"} => (d.ctx = "live" /\ d.frees = 0)
  /\ d.pc \in {"idle", "start"} => (d.ctx = "none" /\ d.frees = 0)

\* C18: compress_stream and decompress_stream free the codec context they
\* created exactly once on every exit path, and never while they run.
C18_ContextFreedOnce == FreedOnce(ds) /\ FreedOnce(cs)

\* A compress_stream call left by an exception of the callback, and a
\* decompress_stream call left by a codec error, with the context freed.
C18_Witness ==
  \/ cs.pc = "raised" /\ cs.exc = "CallbackError" /\ cs.ctx = "freed"
       /\ cs.total_output_size > 0
  \/ ds.pc = "raised" /\ ds.exc = "ZstdError" /\ ds.ctx = "freed"
       /\ ds.total_output_size > 0 /\ ds.read_bytes > 0

\* The successful compilations of the handle of kind op for level.
Compiled(op, level) ==
  {i \in DOMAIN zd.created : zd.created[i].op = op /\ zd.created[i].level = level}

\* The threads inside the locked part of a call on the dictionary.
InDict == {"lookup", "create", "release"}

\* C20: for any interleaving of threads calling _get_cdict(level) and
\* _get_ddict() on one ZstdDict, each level is compiled successfully at most
\* once and the decompression handle at most once, all callers for one
\* level get the same handle, a failed compilation caches nothing, and the
\* lock is held only by a thread inside a call.
C20_DictCache ==
  /\ \A level \in Levels : Cardinality(Compiled("cdict", level)) <= 1
  /\ Cardinality(Compiled("ddict", 0)) <= 1
  /\ \A g, h \in zd.given :
       (g.op = h.op /\ g.level = h.level) => g.handle = h.handle
  /\ \A g \in zd.given : g.handle # 0
  /\ \A t \in Threads :
       (zt[t].pc = "release" /\ zt[t].raised = "ZstdError") =>
         IF zt[t].op = "cdict" THEN zt[t].level \notin DOMAIN zd.cdicts
                               ELSE zd.ddict = 0
  /\ \A level \in DOMAIN zd.cdicts :
       \E i \in Compiled("cdict", level) : zd.created[i].handle = zd.cdicts[level]
  /\ zd.ddict # 0 => \E i \in Compiled("ddict", 0) : zd.created[i].handle = zd.ddict
  /\ \A t \in Threads : (zt[t].pc \in InDict) <=> (zd.lock = t)

\* Both threads were given the handle of one level and the last call of
\* one of them failed to compile a handle; the lock is free.
C20_Witness ==
  /\ zd.lock = 0
  /\ \A t \in Threads : zt[t].pc = "idle"
  /\ \E t \in Threads : zt[t].raised = "ZstdError"
  /\ \E g, h \in zd.given : g.t # h.t /\ g.op = "cdict" /\ h.op = "cdict"
                             /\ g.level = h.level

\* The keys that ask for multithreaded compression.
MTKeys == {ZSTD_c_nbWorkers, ZSTD_c_jobSize, ZSTD_c_overlapLog}

\* As stated: on a build without multithreading support every entry with
\* such a key and a nonzero value is applied as 0 and warned about.
C21_AsStated ==
  ~prm.support_mt =>
    /\ ~prm.use_multithread
    /\ \A i \in DOMAIN prm.applied :
         (prm.applied[i].key \in MTKeys /\ prm.applied[i].given # 0) =>
           /\ prm.applied[i].value = 0
           /\ \E w \in DOMAIN prm.warnings : prm.warnings[w] = i

\* C21: when the codec build lacks multithreading support, every entry with
\* key nbWorkers, jobSize or overlapLog and a value above 0 is applied to
\* the codec as 0 and the context is not marked multithreaded; the warning
\* is raised for the nbWorkers entries with a value above 1 and for no
\* other entry, and a negative value is given to the codec as it is.
C21_SingleThreaded ==
  ~prm.support_mt =>
    /\ ~prm.use_multithread
    /\ \A i \in DOMAIN prm.applied :
         /\ (prm.applied[i].key \in MTKeys /\ prm.applied[i].given > 0) =>
              prm.applied[i].value = 0
         /\ (prm.applied[i].key \in MTKeys /\ prm.applied[i].given < 0) =>
              prm.applied[i].value = prm.applied[i].given
         /\ (\E w \in DOMAIN prm.warnings : prm.warnings[w] = i) <=>
              (prm.applied[i].key = ZSTD_c_nbWorkers /\ prm.applied[i].given > 1)
    /\ \A w \in DOMAIN prm.warnings : prm.warnings[w] \in DOMAIN prm.applied

\* On such a build an option dict that asks for two workers and a job size
\* has been applied, with one warning.
C21_Witness ==
  /\ ~prm.support_mt
  /\ prm.pc = "returned"
  /\ Len(prm.applied) = 2
  /\ \E i, j \in DOMAIN prm.applied :
       /\ prm.applied[i].key = ZSTD_c_nbWorkers /\ prm.applied[i].given = 2
       /\ prm.applied[j].key = ZSTD_c_jobSize /\ prm.applied[j].given > 0
  /\ Len(prm.warnings) = 1

\* The invocations of the callback of the pump frame d so far, against its
\* passes: one invocation for each pass whose output is written (a pass is
\* counted when its codec call has succeeded).
OncePerPass(d) ==
  /\ ~d.has_callback => d.cb_count = 0
  /\ (d.has_callback /\ d.pc \in {"read", "cycle", "check", "returned"}) =>
       d.cb_count = d.passes
  /\ (d.has_callback /\ d.pc = "write") =>
       (d.cb_count + 1 = d.passes /\ d.write_pos < d.out_pos)
  /\ (d.has_callback /\ d.pc = "raised") =>
       IF d.exc \in {"SinkError", "ValueError"} /\ d.has_output
          /\ d.write_pos < d.out_pos
         THEN d.cb_count + 1 = d.passes
         ELSE d.cb_count = d.passes
  /\ (d.pc = "returned" /\ d.cb_count > 0) => d.result = d.cb_args

\* A step from frame d to frame e that invokes the callback: the output of
\* the pass is written (sunk is what the sink holds after the step), and
\* the arguments are the bytes read (read of them) and produced so far.
InvokedWith(d, e, read, sunk) ==
  e.cb_count # d.cb_count =>
    /\ e.cb_count = d.cb_count + 1
    /\ e.passes = d.cb_count + 1
    /\ e.cb_args = <<read, e.total_output_size>>
    /\ e.cb_args[1] = e.total_input_size
    /\ e.cb_args[1] >= d.cb_args[1] /\ e.cb_args[2] >= d.cb_args[2]
    /\ e.has_output => (e.write_pos = e.out_pos /\ Len(sunk) = e.total_output_size)

\* C22: with a callback, compress_stream and decompress_stream invoke it
\* once per pass of the inner loop, after the output of the pass has been
\* written; its first two arguments are the input bytes read and the output
\* bytes produced so far, never decreasing, and the last pair is the pair
\* of totals returned.
C22_CallbackPerPass ==
  /\ [](OncePerPass(ds) /\ OncePerPass(cs))
  /\ [][InvokedWith(ds, ds', fed', got') /\ InvokedWith(cs, cs', csent', cout')]_vars

\* A compress_stream call with a sink has returned after three invocations
\* of its callback.
C22_Witness ==
  /\ cs.pc = "returned" /\ cs.has_callback /\ cs.has_output
  /\ cs.cb_count >= 3 /\ cs.cb_args[1] > 0 /\ cs.cb_args[2] > cs.write_size

\* A step of the pump from frame d to frame e in which readinto or write
\* returned a count: a count out of range raises ValueError at once, the
\* codec and the positions being left as they were, and no other count does.
CountChecked(d, e, codec_same) ==
  /\ (d.pc = "read" /\ e.pc # "read" /\ e.exc # "SourceError") =>
       IF e.read_bytes < 0 \/ e.read_bytes > d.read_size
         THEN /\ e.pc = "raised" /\ e.exc = "ValueError" /\ codec_same
              /\ e.in_size = d.in_size /\ e.in_pos = d.in_pos
              /\ e.total_input_size = d.total_input_size
              /\ e.passes = d.passes
         ELSE e.pc # "raised"
  /\ (d.pc = "write" /\ e # d /\ e.exc # "SinkError") =>
       IF e.write_bytes < 0 \/ e.write_bytes > d.out_pos - d.write_pos
         THEN /\ e.pc = "raised" /\ e.exc = "ValueError" /\ codec_same
              /\ e.write_pos = d.write_pos /\ e.passes = d.passes
         ELSE /\ e.write_pos = d.write_pos + e.write_bytes
              /\ e.pc = "raised" => e.exc = "CallbackError"

\* C23: a readinto that returns a count below 0 or above read_size, and a
\* write that returns a count below 0 or above the number of bytes offered,
\* make the pump raise ValueError at once; the chunk is not passed to the
\* codec and the write position does not advance.
C23_WrongCount ==
  [][/\ CountChecked(ds, ds', ds'.dctx = ds.dctx)
     /\ CountChecked(cs, cs', cs'.cctx = cs.cctx)]_vars

\* A write of compress_stream has returned more than it was offered, after
\* an earlier write was taken, and ValueError is raised.
C23_Witness ==
  /\ cs.pc = "raised" /\ cs.exc = "ValueError"
  /\ cs.write_bytes > cs.out_pos - cs.write_pos
  /\ cs.write_pos > 0

\* C24: after the first close() a ZstdFile is closed and holds no file,
\* whatever the flush of the compressor, the write and the close of the
\* file raised; every later close() raises nothing and writes nothing; and
\* read, write, readable, writable, fileno and tell after a close() raise
\* ValueError.
C24_CloseIdempotent ==
  zf.nclose >= 1 =>
    /\ closed(zf.self) /\ zf.self.fp = "none" /\ ~zf.self.closefp
    /\ (zf.last.op = "close" /\ zf.nclose >= 2) =>
         (zf.last.raised = "none" /\ zf.last.wrote = 0)
    /\ zf.last.op \in {"read", "write", "readable", "writable", "fileno", "tell"} =>
         zf.last.raised = "ValueError"
    /\ zf.file.closes <= 1

\* A file opened for writing was written to, its first close() raised when
\* the flush failed, and a write after a second close() raised ValueError.
C24_Witness ==
  /\ zf.nclose = 2
  /\ zf.self.pos > 0
  /\ zf.self.has_compressor = "set"
  /\ zf.file.closes = 1
  /\ zf.last.op = "write" /\ zf.last.raised = "ValueError"

\* The carry-over window of the instance lies inside its buffer.
Window(self) ==
  /\ 0 <= self.in_begin
  /\ self.in_begin <= self.in_end
  /\ self.in_end <= self.input_buffer_size

\* The window fields of an instance.
WindowOf(self) == <<self.in_begin, self.in_end, self.input_buffer_size>>

\* Every step of the call dec.decompress(data, N) keeps the window inside
\* the buffer, and the steps end in the state the call ends in.
\* The outcome of self.decompress(data, N), given the prepared input p and
\* the outcome d of _decompress_impl on it.
CallFrom(self, data, N, p, d) ==
  IF (self.type = DECOMPRESSOR /\ self.eof) \/ ~p.ok
    THEN stream_decompress(self, data, N)
    ELSE stream_return(self, p, d, N)

WindowKept(data, N) ==
  \A p \in {prepare_input(dec, data)} :
    \A d \in {decompress_impl(dec.type, p.self, p.inp, N,
                              fast_path_size(dec, data, N))} :
      \A steps \in {call_steps(dec, data, p, d)} :
        /\ \A i \in DOMAIN steps : Window(steps[i])
        /\ WindowOf(steps[Len(steps)])
             = WindowOf(CallFrom(dec, data, N, p, d).self)

\* C25: in every reachable state of a decompressor, between calls and
\* after every assignment inside _stream_decompress, also when the call
\* raises, 0 <= in_begin <= in_end <= input_buffer_size.
C25_WindowInvariant ==
  [](/\ Window(dec)
     /\ \A n \in ChunkLens, N \in MaxLengths : WindowKept(NextChunk(n), N))

\* Bytes are carried over in a buffer with room before and after them.
C25_Witness ==
  /\ 0 < dec.in_begin /\ dec.in_begin < dec.in_end
  /\ dec.in_end < dec.input_buffer_size
  /\ raised = "none"

\* The bytes of the carry-over window of an instance.
Carried(self) == SubSeq(self.input_buffer, self.in_begin + 1, self.in_end)

\* The call dec.decompress(data, N): if it raises nothing and the codec
\* leaves bytes of the merged input unconsumed, the window holds exactly
\* those bytes, in the instance's own buffer, and the flags are as stated.
CarriesLeftover(data, N) ==
  \A p \in {prepare_input(dec, data)} :
    \A d \in {decompress_impl(dec.type, p.self, p.inp, N,
                              fast_path_size(dec, data, N))} :
      \A r \in {CallFrom(dec, data, N, p, d)} :
        (r.raised = "none" /\ d.raised = "none" /\ d.ipos < Len(p.inp)) =>
          /\ p.inp = Carried(dec) \o data
          /\ Carried(r.self) = Drop(Carried(dec) \o data, d.ipos)
          /\ Len(Carried(r.self)) > 0
          /\ ~r.self.needs_input
          /\ r.self.type = ENDLESS_DECOMPRESSOR => ~r.self.at_frame_edge

\* C26: after a successful call in which the codec left k > 0 bytes of the
\* merged input unconsumed, the carry-over window holds exactly those k
\* bytes in order, needs_input is false and at_frame_edge of the endless
\* variant is false; the bytes are the last k bytes passed so far, held in
\* the instance's buffer.
C26_LeftoverCarried ==
  [](/\ dec.in_begin < dec.in_end =>
          /\ ~dec.needs_input
          /\ dec.type = ENDLESS_DECOMPRESSOR => ~dec.at_frame_edge
          /\ Len(Carried(dec)) <= fed
          /\ Carried(dec) = SubSeq(stream, fed - Len(Carried(dec)) + 1, fed)
     /\ \A n \in ChunkLens, N \in MaxLengths : CarriesLeftover(NextChunk(n), N))

\* Bytes were carried over, more were passed, and a part of the merged
\* input is carried over again.
C26_Witness ==
  /\ raised = "none" /\ last.made /\ ~last.consumed
  /\ dec.in_begin > 0 /\ dec.in_begin < dec.in_end
  /\ Len(got) > 0

\* What the preparation of the input view does with the chunk data, when
\* the instance holds the window Carried(dec) in a buffer of cap cells.
MergesInput(data) ==
  \A p \in {prepare_input(dec, data)} :
    LET carried == Carried(dec)
        used    == dec.in_end - dec.in_begin
        cap     == dec.input_buffer_size
        both    == used > 0 /\ Len(data) > 0
        swapped == p.self.input_buffer_size # cap
    IN /\ p.inp = carried \o data
       /\ p.use_input_buffer <=> used > 0
       /\ ~both => p.self = dec
       /\ swapped <=> (both /\ cap < used + Len(data))
       /\ swapped =>
            /\ p.self.input_buffer_size = used + Len(data)
            /\ p.self.in_begin = 0 /\ p.self.in_end = used + Len(data)
       /\ (both /\ ~swapped /\ cap - dec.in_end < Len(data)) =>
            /\ p.self.in_begin = 0 /\ p.self.in_end = used + Len(data)
       /\ (both /\ ~swapped /\ cap - dec.in_end >= Len(data)) =>
            /\ p.self.in_begin = dec.in_begin
            /\ p.self.in_end = dec.in_end + Len(data)
            /\ SubSeq(p.self.input_buffer, 1, dec.in_end)
                 = SubSeq(dec.input_buffer, 1, dec.in_end)
       /\ both =>
            SubSeq(p.self.input_buffer, p.self.in_begin + 1, p.self.in_end) = p.inp

\* C27: the input view handed to the codec is the carried-over bytes
\* followed by all bytes of data; the carry-over storage is replaced by a
\* new allocation only when its capacity is smaller than carried plus
\* len(data), compacted in place when only the tail room is too small, and
\* left in place otherwise.  In every state between calls this holds of
\* every call that may come next.
C27_InputMerge ==
  \A n \in ChunkLens : MergesInput(NextChunk(n))

\* A call has moved the carried bytes to the start of the buffer and added
\* data behind them, and returned normally.
C27_Witness ==
  /\ last.made /\ last.merge = "compacted" /\ raised = "none"

\* Block b has been written from its start up to cell n, and no further.
WrittenTo(b, n) ==
  \A i \in 1..Len(b) : (b[i] # Junk) <=> i <= n

\* The shape of an output buffer.
BufferShape(ob) ==
  /\ ob.list # <<>>
  /\ ob.allocated = SumLen(ob.list)
  /\ \A i \in 1..(Len(ob.list) - 1) : WrittenTo(ob.list[i], Len(ob.list[i]))
  /\ ob.size = Len(ob.list[Len(ob.list)])
  /\ ob.pos \in 0..ob.size
  /\ WrittenTo(ob.list[Len(ob.list)], ob.pos)

\* C28: in every state of a compress or decompress call, allocated is the
\* sum of the sizes of the blocks in the list, every block but the last is
\* completely written, and the last block holds exactly out.pos written
\* bytes, out.size being its size.
C28_BufferInvariant ==
  bc.pc # "idle" => (BufferShape(bc.ob) /\ BufferShape(bc.st.ob))

\* After a codec call, the buffer has grown and its last block is written
\* in part.
C28_Witness ==
  /\ bc.pc = "tail" /\ bc.entered
  /\ Len(bc.ob.list) >= 2
  /\ bc.ob.pos > 0 /\ bc.ob.pos < bc.ob.size

\* The claim as it is stated: a buffer made by initWithSize is never grown,
\* and finish() finds exactly one block.
C29_AsStated ==
  /\ bc.with_size => bc.grows = 0
  /\ (bc.fin.ran /\ bc.fin.with_size) => bc.fin.blocks = 1

\* A pass of a decompress call leaves the block full without leaving the
\* loop at a frame end: r is what the codec returned, ob the buffer after
\* the codec wrote, st and inp the loop state and the input view.
FullAndGoingOn(type, st, inp, r, ob) ==
  /\ ~ZSTD_isError(r.ret)
  /\ ob.pos = ob.size
  /\ ~stop_at_frame(type, r.ret, st.ipos + r.n = Len(inp))

\* What holds of a buffer made by initWithSize in every state.
KnownSizeShape ==
  /\ (bc.pc # "idle" /\ bc.with_size) =>
       /\ bc.ob.max_length = -1
       /\ Len(bc.ob.list[1]) = bc.init_size
       /\ bc.grows = Len(bc.ob.list) - 1
  /\ (bc.pc # "idle" /\ bc.kind = "richmem") =>
       (bc.with_size /\ bc.grows = 0 /\ Len(bc.ob.list) = 1)
  /\ (bc.fin.ran /\ bc.fin.kind = "richmem") =>
       (bc.fin.with_size /\ bc.fin.grows = 0 /\ bc.fin.blocks = 1)
  /\ (bc.fin.ran /\ bc.fin.with_size /\ bc.fin.kind = "decompress"
        /\ bc.fin.produced < bc.fin.init_size) =>
       (bc.fin.grows = 0 /\ bc.fin.blocks = 1)
  /\ (bc.fin.ran /\ bc.fin.with_size) => bc.fin.blocks = bc.fin.grows + 1

\* C29: a buffer made by initWithSize is one block of the size asked for,
\* without a cap.  Rich-memory compress never grows it, and finish() finds
\* exactly one block.  The endless fast path grows it in exactly the
\* passes that leave the block full without leaving the loop at a frame
\* end with the input consumed, as when a further frame follows the first;
\* when the call produces less than the declared size, it is not
\* grown and finish() finds exactly one block.
C29_KnownSize ==
  /\ []KnownSizeShape
  /\ [][(bc.pc = "tail" /\ bc.kind = "decompress" /\ bc.with_size) =>
          ((bc'.grows = bc.grows + 1)
             <=> FullAndGoingOn(dec.type, bc.st, bc.inp, bc.r, bc.ob))]_vars

\* finish() has run on a buffer that the fast path made for a frame of a
\* byte or more and that the frame filled: it was not grown.
C29_Witness ==
  /\ bc.fin.ran /\ bc.fin.with_size /\ bc.fin.kind = "decompress"
  /\ bc.fin.init_size > 0 /\ bc.fin.produced = bc.fin.init_size
  /\ bc.fin.grows = 0 /\ bc.fin.blocks = 1

\* grow() may be called on ob: its two asserts hold.
MayGrow(ob) ==
  /\ ob.pos = ob.size
  /\ ob.max_length >= 0 => ob.allocated < ob.max_length

\* Whatever the codec returns for the call that is about to be made (it
\* reads n bytes, writes k bytes into the room it has, and returns an
\* error, a frame end or neither), the rest of the pass fails no assert,
\* and calls grow() only on a full block below the cap.
AnyCodecResult ==
  (bc.pc = "codec" /\ bc.kind = "decompress") =>
    \A n \in 0..(Len(bc.inp) - bc.st.ipos), k \in 0..(bc.ob.size - bc.ob.pos),
       ret \in {-1, 0, 1} :
      \A r \in {[dc |-> NewDCtx, n |-> n, ret |-> ret, out |-> [i \in 1..k |-> 0]]} :
        \A q \in {pass_once(dec.type, bc.st, bc.inp, r)} :
          /\ q.st.ob.ok
          /\ q.st.raised # "AssertionError"
          /\ Len(q.st.ob.list) > Len(bc.ob.list) => MayGrow(writeOut(bc.ob, r.out))

\* C30: in the loop of _decompress_impl, for every max_length, 0 included,
\* and whatever the codec does, reachedMaxLength() and grow() are called
\* only when out.pos == out.size, and grow() is never called when a cap is
\* set and allocated == max_length: no assert of the buffer code fails.
C30_AssertionsHold ==
  /\ [](bc.ob.ok /\ bc.st.ob.ok /\ bc.raised # "AssertionError" /\ AnyCodecResult)
  /\ [][(bc.pc = "tail" /\ bc.kind = "decompress") =>
          /\ bc'.grows = bc.grows + 1 => MayGrow(bc.ob)
          /\ (bc'.pc = "end" /\ bc'.raised = "none" /\ bc'.st.ipos < Len(bc.inp)
                /\ ~stop_at_frame(dec.type, bc.r.ret, FALSE)) =>
               (bc.ob.pos = bc.ob.size /\ bc.ob.allocated = bc.ob.max_length)]_vars

\* A decompress call with a cap has grown its buffer up to the cap and
\* left the loop there, with input left.
C30_Witness ==
  /\ bc.pc = "end" /\ bc.kind = "decompress" /\ bc.raised = "none"
  /\ bc.max_length >= 0 /\ bc.grows > 0
  /\ bc.ob.pos = bc.ob.size /\ bc.ob.allocated = bc.max_length
  /\ bc.st.ipos < Len(bc.inp)

\* A decompress call with max_length 0 has left the loop after one pass.
CapZero ==
  /\ bc.pc = "end" /\ bc.kind = "decompress" /\ bc.entered /\ bc.raised = "none"
  /\ bc.max_length = 0 /\ bc.grows = 0 /\ bc.ob.allocated = 0

\* The bytes written to ob: its blocks but the last, in order, and the
\* first out.pos bytes of the last.
WrittenBytes(ob) ==
  Flatten(SubSeq(ob.list, 1, Len(ob.list) - 1))
    \o SubSeq(ob.list[Len(ob.list)], 1, ob.pos)

\* C31: in every state of a compress or decompress call, finish() would
\* return exactly the written bytes: allocated - (out.size - out.pos) of
\* them, the contents of all blocks but the last followed by the first
\* out.pos bytes of the last; the fast path for one full block, or for two
\* blocks the second of which is empty, returns what the copy would.
C31_FinishReturnsWritten ==
  bc.pc # "idle" =>
    \A ob \in {bc.ob, bc.st.ob} :
      /\ finish(ob) = WrittenBytes(ob)
      /\ Len(finish(ob)) = ob.allocated - (ob.size - ob.pos)
      /\ \A i \in DOMAIN finish(ob) : finish(ob)[i] # Junk

\* A call is about to return from a buffer of two blocks, the first full
\* and the second empty.
C31_Witness ==
  /\ bc.pc = "end" /\ bc.entered /\ bc.raised = "none"
  /\ Len(bc.ob.list) = 2 /\ bc.ob.pos = 0
  /\ Len(bc.ob.list[1]) > 0

\* What one codec call of the multithreaded loop and what follows it may
\* do, q being the outcome for the codec result r on the loop state st
\* with the buffer ob as the codec left it.
MtStepOk(st, data, r, ob, q) ==
  /\ q.st.ob.ok /\ q.st.raised # "AssertionError"
  /\ Len(q.st.ob.list) > Len(ob.list) => (ob.pos = ob.size /\ q.go)
  /\ (~q.go /\ q.st.raised = "none") => q.st.ipos = Len(data)
  /\ ZSTD_isError(r.ret) <=> q.st.raised = "ZstdError"
  /\ ZSTD_isError(r.ret) => ~q.go
  /\ (q.go /\ Len(q.st.ob.list) = Len(ob.list)) =>
       (ob.pos < ob.size /\ q.st.ipos < Len(data))

\* Whatever the codec returns for the call that is about to be made.
AnyMtCodecResult ==
  (bc.pc = "codec" /\ bc.kind = "mt") =>
    \A n \in 0..(Len(bc.inp) - bc.st.ipos), k \in 0..(bc.ob.size - bc.ob.pos),
       ret \in {-1, 0, 1} :
      \A r \in {[cc |-> bc.st.cc, n |-> n, ret |-> ret, out |-> [i \in 1..k |-> 0]]} :
        \A q \in {mt_once(bc.st, bc.inp, r)} :
          MtStepOk(bc.st, bc.inp, r, writeOut(bc.ob, r.out), q)

\* C32: ZstdCompressor.compress(data, CONTINUE) on a multithreaded context
\* uses the loop of _compress_mt_continue_impl, and no other call does;
\* whatever the codec does, the loop calls grow() only when the output
\* block is exactly full, returns only when all of data has been consumed,
\* and raises on the first codec error.
C32_MtContinueLoop ==
  /\ [](/\ AnyMtCodecResult
        /\ bc.kind = "mt" => bc.raised # "AssertionError"
        /\ (bc.pc # "idle" /\ bc.kind \in {"mt", "compress"}) =>
             (bc.kind = "mt" <=> (comp.use_multithreaded /\ bc.mode = CONTINUE))
        /\ (bc.pc = "end" /\ bc.kind \in {"mt", "compress"}) =>
             \A r \in {compress_locked(comp, compress_return(bc.st), bc.mode)} :
               \E c \in {[comp EXCEPT !.cctx = bc.cc0]} :
                 \A w \in {ZstdCompressor_compress(c, bc.inp, bc.mode)} :
                   r.ret = w.ret /\ r.raised = w.raised /\ r.self = w.self)
  /\ [][(bc.pc = "tail" /\ bc.kind = "mt") =>
          MtStepOk(bc.st, bc.inp, bc.r, bc.ob,
                   [st |-> bc'.st, go |-> bc'.pc = "codec"])]_vars

\* A multithreaded compress(data, CONTINUE) has consumed its data after
\* having grown the buffer, and is about to return.
C32_Witness ==
  /\ bc.pc = "end" /\ bc.kind = "mt" /\ bc.raised = "none"
  /\ bc.grows > 0 /\ Len(bc.inp) > 0 /\ bc.st.ipos = Len(bc.inp)

\* Thread t is in a call on comp, from the wait for the lock to its release.
InCompCall(t) == th[t].pc \in Inside \cup {"wait"} /\ Obj(th[t].op) = "comp"

\* C33: ZstdCompressor.compress with a mode outside CONTINUE, FLUSH_BLOCK
\* and FLUSH_FRAME, and ZstdCompressor.flush with a mode outside
\* FLUSH_BLOCK and FLUSH_FRAME (CONTINUE included), raise ValueError
\* without taking the lock, without calling or resetting the codec, and
\* with last_mode unchanged.
C33_ModeValidation ==
  /\ [](/\ \A t \in Threads :
             /\ InCompCall(t) => (th[t].raised # "ValueError"
                                   /\ (th[t].op \in {"compress", "flush"}
                                          => mode_ok(th[t].op, th[t].mode)))
        /\ \A mode \in Modes, data \in {<<>>, <<1>>} :
             /\ mode \notin {CONTINUE, FLUSH_BLOCK, FLUSH_FRAME} =>
                  \A r \in {ZstdCompressor_compress(comp, data, mode)} :
                    r.raised = "ValueError" /\ r.self = comp /\ r.ret = <<>>
             /\ mode \notin {FLUSH_BLOCK, FLUSH_FRAME} =>
                  \A r \in {ZstdCompressor_flush(comp, mode)} :
                    r.raised = "ValueError" /\ r.self = comp /\ r.ret = <<>>)
  /\ [][\A t \in Threads :
          (th[t].pc = "idle" /\ th'[t] # th[t] /\ Obj(th'[t].op) = "comp"
             /\ ~(IF th'[t].op = "compress"
                    THEN th'[t].mode \in {CONTINUE, FLUSH_BLOCK, FLUSH_FRAME}
                    ELSE th'[t].mode \in {FLUSH_BLOCK, FLUSH_FRAME})) =>
            /\ th'[t].raised = "ValueError" /\ th'[t].pc = "idle"
            /\ lock' = lock /\ comp' = comp]_vars

\* A thread's call was refused for its mode while the other thread held
\* the lock of comp in the middle of a frame.
C33_Witness ==
  \E t \in Threads :
    /\ th[t].raised = "ValueError" /\ th[t].pc = "idle"
    /\ lock.comp \notin {0, t}
    /\ comp.last_mode # FLUSH_FRAME

\* C34: compress_stream does not generate an empty frame: when the first
\* count the source returns is 0, the function returns (0, 0) without a
\* codec step, without a write to the sink and without invoking the
\* callback; the would-block reads before it change nothing.
C34_NoEmptyFrame ==
  /\ []((cs.pc = "returned" /\ cs.total_input_size = 0) =>
          /\ cs.result = <<0, 0>> /\ cs.read_bytes = 0
          /\ cs.passes = 0 /\ cs.cb_count = 0 /\ cs.total_output_size = 0
          /\ cout = <<>> /\ cs.cctx = NewCCtx)
  /\ [][(cs.pc = "read" /\ cs.total_input_size = 0 /\ cs'.read_bytes = 0) =>
          /\ cs'.pc = "returned" /\ cs'.result = <<0, 0>>
          /\ cs'.passes = cs.passes /\ cs'.cb_count = cs.cb_count
          /\ cout' = cout /\ cs'.cctx = cs.cctx]_vars

\* compress_stream, given a sink and a callback, has returned on a source
\* whose first count was 0.
C34_Witness ==
  /\ cs.pc = "returned" /\ cs.read_bytes = 0 /\ cs.total_input_size = 0
  /\ cs.has_output /\ cs.has_callback

\* The callback of the pump d was invoked in the step to e.
Called(d, e) == e.cb_count = d.cb_count + 1

\* The bytes d has read and no callback has been yielded yet.
NotYielded(d) == d.total_input_size - d.cb_in

\* The input views of the pump d yield every chunk once: what is not yet
\* yielded is the chunk of the last read or nothing, and nothing is left
\* to yield once the function has returned.
YieldsOnce(d) ==
  d.has_callback =>
    /\ NotYielded(d) \in {0, d.in_size}
    /\ NotYielded(d) > 0 => d.callback_read_pos = 0
    /\ d.cb_out <= d.total_output_size
    /\ d.pc = "returned" =>
         /\ d.cb_in = d.total_input_size
         /\ d.cb_out = d.total_output_size

\* A callback of the pump d, in the step to e, receives the chunk when it
\* is the first one after the read and an empty input view otherwise, and
\* an output view of the bytes the pass produced.
ViewsOfCall(d, e) ==
  Called(d, e) =>
    /\ e.cb_view[1] = NotYielded(d)
    /\ NotYielded(e) = 0
    /\ e.cb_view[2] = e.out_pos
    /\ e.cb_out = e.total_output_size

\* C35: the callback's input views yield read data only once: the first
\* callback after a read receives exactly the chunk read and every later
\* callback for the same chunk an empty input view; over a whole run of
\* compress_stream or decompress_stream the lengths of the input views sum
\* to total_input_size and those of the output views to total_output_size.
C35_YieldOnce ==
  /\ [](YieldsOnce(ds) /\ YieldsOnce(cs))
  /\ [][ViewsOfCall(ds, ds') /\ ViewsOfCall(cs, cs')]_vars

\* The latest callback of a run received an empty input view for a chunk
\* of two bytes or more that an earlier callback had been yielded.
C35_Witness ==
  \E d \in {ds, cs} :
    /\ d.has_callback /\ d.exc = "none"
    /\ d.cb_count >= 2 /\ d.cb_out > 0
    /\ d.cb_view[1] = 0 /\ d.in_size > 1 /\ d.cb_in = d.total_input_size

\* The pump d, whose sink has taken sink and whose source has handed out
\* sent bytes, has returned what the sink and the source saw.
Complete(d, sink, sent) ==
  d.pc = "returned" =>
    /\ d.exc = "none"
    /\ d.result = <<d.total_input_size, d.total_output_size>>
    /\ d.result[1] = sent
    /\ d.result[2] = Len(d.produced)
    /\ d.has_output => (sink = d.produced /\ d.result[2] = Len(sink))
    /\ ~d.has_output => sink = <<>>

\* While the pump d runs, its sink holds the bytes produced before the
\* block being written and the part of that block already taken.
InOrder(d, sink) ==
  (d.has_output /\ d.pc \in {"read", "cycle", "write", "check"}) =>
    /\ Len(sink) <= Len(d.produced)
    /\ sink = Take(d.produced, Len(sink))
    /\ Len(d.produced) - Len(sink) =
         (IF d.pc = "write" THEN d.out_pos - d.write_pos ELSE 0)

\* A write that takes nothing, or a sink or a source that would block,
\* changes no counter of the pump d.
RetrySame(d, e, sink, sink2) ==
  (d.pc = "write" /\ e.pc = "write" /\ e.exc = "none" /\ sink2 = sink) =>
    /\ e.write_pos = d.write_pos /\ e.out_pos = d.out_pos
    /\ e.output_block = d.output_block
    /\ e.total_output_size = d.total_output_size
    /\ e.total_input_size = d.total_input_size
    /\ e.passes = d.passes /\ e.cb_count = d.cb_count

\* C36: on normal return of compress_stream or decompress_stream with a
\* sink, the bytes the sink accepted are the bytes the codec produced, in
\* production order and each exactly once, whether the sink takes a write
\* partially, takes 0 bytes or returns None; the returned total_output_size
\* is the number of bytes accepted and total_input_size the sum of the
\* counts the source returned.
C36_OutputComplete ==
  /\ [](/\ Complete(ds, got, fed) /\ Complete(cs, cout, csent)
         /\ InOrder(ds, got) /\ InOrder(cs, cout))
  /\ [][RetrySame(ds, ds', got, got') /\ RetrySame(cs, cs', cout, cout')]_vars

\* A pump has returned after its sink took the last block, of two bytes
\* or more, in parts, the final write taking one byte.
C36_Witness ==
  \E d \in {ds, cs} :
    /\ d.pc = "returned" /\ d.has_output
    /\ d.passes >= 2 /\ Len(d.produced) >= 3
    /\ d.out_pos >= 2 /\ d.write_bytes = 1

\* The last call on dec was a decompress call of an EndlessZstdDecompressor
\* with a negative max_length, and it raised nothing.
UnboundedEndlessCall ==
  /\ dec.type = ENDLESS_DECOMPRESSOR
  /\ last.made /\ last.max_length < 0 /\ raised = "none"

\* C37: every successful decompress call of an EndlessZstdDecompressor
\* with max_length < 0 consumes its whole merged input: after it the
\* carry-over is empty and needs_input is true, whatever the codec
\* returned.
C37_UnboundedConsumesAll ==
  UnboundedEndlessCall =>
    /\ last.consumed
    /\ dec.in_begin = dec.in_end
    /\ dec.needs_input
    /\ dec.at_frame_edge <=> (~last.called \/ last.zstd_ret = 0)

\* Such a call took a chunk merged with carried-over bytes and ended in the
\* middle of a frame.
C37_Witness ==
  /\ UnboundedEndlessCall
  /\ last.merge \in {"relocated", "compacted", "appended"}
  /\ last.called /\ last.zstd_ret # 0
  /\ last.retlen > 1

\* C38: between calls of either decompressor variant, needs_input true
\* implies that no input is carried over (in_begin = in_end = 0); whenever
\* unconsumed input is buffered, needs_input is false.
C38_NeedsInputNoCarry ==
  /\ dec.needs_input => (dec.in_begin = 0 /\ dec.in_end = 0)
  /\ dec.in_begin # dec.in_end => ~dec.needs_input
  /\ dec.in_begin = dec.in_end => dec.in_begin = 0

\* A call has consumed a carry-over merged with new bytes to the end, and
\* the instance asks for input again with its window cleared.
C38_Witness ==
  /\ last.made /\ raised = "none" /\ last.consumed
  /\ last.merge \in {"relocated", "compacted", "appended"}
  /\ dec.needs_input /\ dec.in_begin = 0 /\ dec.in_end = 0
  /\ fed < Len(stream)

\* The pump d has left its function, or was never called.
Left(d) == d.pc \in {"returned", "raised", "idle"}

\* A read that would block leaves the frame d as it is, and a step to e
\* that stays in the read has not happened.
RereadSame(d, e) == (d.pc = "read" /\ e.pc = "read") => e = d

\* C39: compress_stream and decompress_stream eventually return or raise
\* when the source returns a count after finitely many would-block results
\* and 0 in the end, the sink accepts in the end a byte of every non-empty
\* offer and each codec step makes progress; a would-block read and a
\* zero-byte or None write are retried with the same buffer and change no
\* counter.
C39_PumpTerminates ==
  /\ <>(Left(ds) /\ Left(cs))
  /\ [][/\ RereadSame(ds, ds') /\ RereadSame(cs, cs')
         /\ RetrySame(ds, ds', got, got') /\ RetrySame(cs, cs', cout, cout')]_vars

\* A pump has returned after more than one read and a write that the sink
\* took in parts.
C39_Witness ==
  \E d \in {ds, cs} :
    /\ d.pc = "returned" /\ d.has_output /\ d.has_callback
    /\ d.total_input_size > d.read_size
    /\ d.total_output_size > 1 /\ d.passes > 2

\* The frames that begin in the tokens seq.
FrameStarts(seq) == Cardinality({i \in DOMAIN seq : seq[i] = Magic})

\* The directive of the read cycle compress_stream is in: the end of the
\* frame when the source returned 0 after bytes had been read, CONTINUE
\* otherwise; the codec ends the frame under the end directive only.
DirectiveOfCycle ==
  cs.pc \in {"cycle", "write", "check"} =>
    /\ cs.end_directive = (IF cs.read_bytes = 0 THEN FLUSH_FRAME ELSE CONTINUE)
    /\ cs.read_bytes = 0 => (cs.total_input_size > 0 /\ cs.in_size = 0)
    /\ cs.end_directive = CONTINUE =>
         /\ \A i \in DOMAIN cs.produced : cs.produced[i] # End
         /\ cs.pc = "check" => cs.in_pos = cs.in_size
    /\ (cs.end_directive = FLUSH_FRAME /\ cs.pc = "check") =>
         /\ cs.zstd_ret = 0
         /\ cs.has_output => cout = cs.produced

\* compress_stream has returned after reading bytes: the last cycle ended
\* the frame, and what the codec produced is one whole frame of the bytes
\* read.
OneFrame ==
  (cs.pc = "returned" /\ cs.total_input_size > 0) =>
    /\ cs.end_directive = FLUSH_FRAME /\ cs.read_bytes = 0 /\ cs.zstd_ret = 0
    /\ FrameStarts(cs.produced) = 1
    /\ cs.produced[1] = Magic /\ cs.produced[Len(cs.produced)] = End
    /\ decompress(cs.produced).raised = "none"
    /\ decompress(cs.produced).ret = Take(src, cs.total_input_size)
    /\ cs.has_output => cout = cs.produced

\* A pass of the inner loop ends in the step to e: the loop is left when
\* the chunk is consumed under CONTINUE, and when the codec has reported 0
\* under the end directive.
PassEnd(d, e) ==
  (d.pc \in {"cycle", "write"} /\ e.pc \in {"cycle", "check"}) =>
    /\ e.end_directive = d.end_directive
    /\ e.pc = "check" <=> (IF e.end_directive = CONTINUE
                             THEN e.in_pos = e.in_size
                             ELSE e.zstd_ret = 0)

\* C40: compress_stream issues the frame-end directive only in the read
\* cycle where the source returned 0 after at least one byte had been
\* read; every other cycle uses CONTINUE and ends as soon as the chunk is
\* consumed; after the end directive the function returns only once the
\* codec has reported 0 and that output is written; a non-empty input
\* yields exactly one frame.
C40_FrameEnding ==
  /\ [](DirectiveOfCycle /\ OneFrame)
  /\ [][PassEnd(cs, cs')]_vars

\* compress_stream has returned one frame after two reads of bytes or
\* more and an end directive that took more than one pass to flush.
C40_Witness ==
  /\ cs.pc = "returned" /\ cs.has_output
  /\ cs.total_input_size > cs.read_size
  /\ cs.passes > 3
  /\ Len(cs.produced) > cs.write_size + 2
  /\ cs.out_pos > 0 /\ cs.out_pos < cs.write_size

====
